---- MODULE Spec2Model ----
(***************************************************************************)
(* CuttingLabs segmentation backend: the provider fallback/retry           *)
(* controller (services/gemini.py, services/pipeline.py) and the           *)
(* synchronous caller (views.py), as a state machine.                      *)
(*                                                                         *)
(* One behaviour is one run_segmentation call made by SegmentView.post.    *)
(* The run is cut at its suspension points: every call of a provider       *)
(* transport (new SDK, legacy SDK, local RMBG model) and the backoff       *)
(* sleep.  Everything the code does between two suspension points is one    *)
(* action.  What a provider answers is the environment's choice.           *)
(*                                                                         *)
(* Strings are sequences of fragments: an f-string is a concatenation, and *)
(* "x in str(e)" is the search of a fragment.  A provider error text is    *)
(* kept as what the code reads from it: whether it holds one of the quota  *)
(* keywords and the number that follows "retry in/after/delay", if any     *)
(* (texts whose number is a well-formed numeral).                          *)
(*                                                                         *)
(* The pure functions of the pipeline (box geometry, candidate scoring and *)
(* selection, the border-touch penalty) have specifications of their own:  *)
(* the initial state draws the arguments (args), one action applies the    *)
(* function and keeps what it returned or raised (ret).                    *)
(***************************************************************************)
EXTENDS Integers, Sequences, FiniteSets, TLC

VARIABLES
    processing_mode,   \* params['processing_mode']
    first_max_edge,    \* env GEMINI_MAX_EDGE
    api_key,           \* env GEMINI_API_KEY is configured
    pc,                \* where the run is suspended
    stage,             \* "first" or "roi": which pass called the primary
    max_edge,          \* max_edge of the current _generate_candidates_with_retry
    gen,               \* 1: generate_candidates on the prepared image, 2: on the 1024 one
    attempt,           \* loop index of _generate_with_retry
    last_error,        \* last_error of _generate_with_retry
    legacy_error,      \* legacy_error of _generate_with_retry
    new_calls,         \* calls of _generate_with_new_sdk in this _generate_with_retry
    legacy_calls,      \* calls of _generate_with_legacy_sdk in this _generate_with_retry
    sleeps,            \* the time.sleep durations of this _generate_with_retry
    retry_result,      \* how the last _generate_with_retry ended
    gemini_calls,      \* stage -> number of cloud transport calls made
    local_calls,       \* number of generate_mask calls made
    local_outcome,     \* what happened inside the generate_mask call
    cloud_all_quota,   \* every cloud transport call so far raised a quota error
    deadline_exceeded, \* a first-pass cloud call ran longer than API_TIMEOUT
    primary_end,       \* how the first-pass primary ended
    last_quota_text,   \* the last quota error raised by a transport in the first pass
    error_type,        \* error_type of _generate_with_fallback
    selected,          \* the first-pass selected candidate
    processor_used,    \* processor_used of run_segmentation
    roi_mask_payload,  \* roi_mask_payload of run_segmentation
    roi_box_2d,        \* roi_box_2d of run_segmentation
    outcome,           \* how run_segmentation ended
    response,          \* the Response of SegmentView.post
    roi_selected,      \* roi_selected of run_segmentation, once the second pass selected
    roi_raised,        \* the try block of the second pass raised
    args,              \* the arguments of the pure function under check
    ret,               \* what the pure function under check returned or raised
    _processor,        \* rmbg._processor: 0 for None, else the session held
    _device,           \* rmbg._device
    new_sessions,      \* number of new_session calls made in this process
    callers,           \* thread -> where it is in _get_processor and what it got
    jobs,              \* the SegmentationJob rows: id -> row
    results,           \* the SegmentResult rows, in the order they were stored
    tasks              \* job id -> where its run_segmentation_task is

env == <<processing_mode, first_max_edge, api_key>>
genv == <<stage, max_edge, gen>>
retryv == <<attempt, last_error, legacy_error, new_calls, legacy_calls, sleeps, retry_result>>
hist == <<gemini_calls, local_calls, local_outcome, cloud_all_quota, deadline_exceeded,
          primary_end, last_quota_text>>
runv == <<error_type, selected, processor_used, roi_mask_payload, roi_box_2d, outcome>>
roiv == <<roi_selected, roi_raised>>
procv == <<_processor, _device, new_sessions, callers>>
taskv == <<jobs, results, tasks>>
purev == <<args, ret, procv, taskv>>
vars == <<env, pc, genv, retryv, hist, runv, response, roiv, purev>>

----------------------------------------------------------------------------
(* Bounds and program constants *)

MaxDelay == 4

MAX_RETRIES == 2
BASE_DELAY == 3
API_TIMEOUT == 15
DEFAULT_RETRY_DELAY == 60
SMALLER_EDGE == 1024
DEFAULT_MAX_EDGE == 2048
ROI_MAX_EDGE == 1536

PROCESSING_MODE_GEMINI == "gemini"
PROCESSING_MODE_LOCAL == "local"
PROCESSING_MODE_AUTO == "auto"

Stages == {"first", "roi"}

----------------------------------------------------------------------------
(* Exceptions and strings *)

Contains(msg, fragment) == \E i \in 1..Len(msg) : msg[i] = fragment

\* An exception: its class, str(e) as fragments, whether str(e) holds a quota
\* keyword, the delay numeral found in str(e) (<<>> when none), and retry_after.
Exc(type, msg, kw, delay, retry_after) ==
    [type |-> type, msg |-> msg, kw |-> kw, delay |-> delay, retry_after |-> retry_after]

NoExc == Exc("None", <<>>, FALSE, <<>>, 0)

ValueError(msg) == Exc("ValueError", msg, FALSE, <<>>, 0)

QuotaExceededError(retry_after) ==
    Exc("QuotaExceededError", <<"API quota exceeded. Please try again in N seconds.">>,
        TRUE, <<>>, retry_after)

ApiTimeoutError == Exc("ApiTimeoutError", <<"timeout">>, FALSE, <<>>, 0)

DelayTexts == {<<>>} \cup {<<d>> : d \in 1..MaxDelay}

\* What a transport can raise while the key is configured: a quota or
\* rate-limit error, with or without a suggested delay, or another error.
SdkErrors ==
    {Exc("ProviderError", <<"429 quota">>, TRUE, d, 0) : d \in DelayTexts}
        \cup {Exc("ProviderError", <<"provider error">>, FALSE, <<>>, 0)}

MissingKeyError == Exc("RuntimeError", <<"GEMINI_API_KEY not configured">>, FALSE, <<>>, 0)

\* A parser that never finds the delay.
_extract_retry_delay_default(e) == DEFAULT_RETRY_DELAY

_extract_retry_delay(e) == IF e.delay # <<>> THEN e.delay[1] ELSE DEFAULT_RETRY_DELAY

_is_quota_error(e) == e.kw

Min(a, b) == IF a <= b THEN a ELSE b

RECURSIVE Pow2(_)
Pow2(n) == IF n = 0 THEN 1 ELSE 2 * Pow2(n - 1)

\* A backoff that ignores the delay the provider suggested.
wait_time_uncapped(retry_delay, k) == BASE_DELAY * Pow2(k)

wait_time(retry_delay, k) == Min(retry_delay, BASE_DELAY * Pow2(k))

\* A guard that is off by one: the last attempt sleeps too.
ShouldRetryOffByOne(k) == k < MAX_RETRIES

\* "if attempt < MAX_RETRIES - 1": another attempt follows the sleep.
ShouldRetry(k) == k < MAX_RETRIES - 1

----------------------------------------------------------------------------
(* Candidates and response texts *)

\* A candidate as far as the run reads it: who produced it, in which pass, and
\* whether its mask payload decodes and its box_2d is four numbers.
Candidate(src, st, mask_ok, box_ok) ==
    [src |-> src, stage |-> st, mask_ok |-> mask_ok, box_ok |-> box_ok]

NoCandidate == Candidate("none", "none", FALSE, FALSE)

Text(kind, mask_ok, box_ok) == [kind |-> kind, mask_ok |-> mask_ok, box_ok |-> box_ok]

NoText == Text("none", FALSE, FALSE)

\* The response texts of a transport: no text, text that is not JSON, JSON of
\* the wrong shape, a list without a complete item, or a list of candidates
\* (kept as the candidate the selector picks).
SdkTexts ==
    {Text(k, TRUE, TRUE) : k \in {"empty", "invalid_json", "not_list", "no_items"}}
        \cup {Text("candidates", m, b) : m \in BOOLEAN, b \in BOOLEAN}

Result(kind, text, cand, exc) == [kind |-> kind, text |-> text, cand |-> cand, exc |-> exc]

NoResult == Result("none", NoText, NoCandidate, NoExc)
ReturnText(t) == Result("return", t, NoCandidate, NoExc)
ReturnCand(c) == Result("return", NoText, c, NoExc)
Raise(e) == Result("raise", NoText, NoCandidate, e)

----------------------------------------------------------------------------
(* Pure steps of the provider adapters *)

\* A transport call has no deadline: it blocks until the SDK answers, and what
\* the SDK answered is the result whatever the time it took.
TransportOutcome(answer, elapsed) == answer

\* A handler that re-raises the legacy error whatever it is.
LegacyFailureUnconverted(e) == Raise(e)

\* "except Exception as legacy_error": a quota error leaves as
\* QuotaExceededError, any other as itself.
LegacyFailure(e) ==
    IF _is_quota_error(e) THEN Raise(QuotaExceededError(_extract_retry_delay(e))) ELSE Raise(e)

\* generate_candidates after _generate_with_retry ended with r.
generate_candidates(r, st) ==
    IF r.kind = "raise" THEN r
    ELSE IF r.text.kind = "empty" THEN Raise(ValueError(<<"Empty response from model">>))
    ELSE IF r.text.kind = "invalid_json"
        THEN Raise(ValueError(<<"Invalid JSON format from model">>))
    ELSE IF r.text.kind = "not_list"
        THEN Raise(ValueError(<<"Unexpected JSON format from model">>))
    ELSE IF r.text.kind = "no_items" THEN Raise(ValueError(<<"Model returned empty list">>))
    ELSE ReturnCand(Candidate("gemini", st, r.text.mask_ok, r.text.box_ok))

\* "'Invalid JSON format' in str(exc) and max_edge > 1024", in the ValueError handler.
RetriesSmaller(r, edge) ==
    /\ r.kind = "raise"
    /\ r.exc.type = "ValueError"
    /\ Contains(r.exc.msg, "Invalid JSON format from model")
    /\ edge > SMALLER_EDGE

\* What happens inside generate_mask.
LocalCauses == {"ok", "ModelLoadError", "InferenceError"}

\* generate_mask: every exception, _get_processor's ModelLoadError included,
\* leaves as InferenceError.
generate_mask(cause) ==
    IF cause = "ok" THEN ReturnCand(Candidate("rmbg-local", "first", TRUE, TRUE))
    ELSE IF cause = "ModelLoadError"
        THEN Raise(Exc("InferenceError",
                       <<"Mask generation failed", ": ", "Failed to load RMBG model">>,
                       FALSE, <<>>, 0))
    ELSE Raise(Exc("InferenceError", <<"Mask generation failed", ": ", "inference error">>,
                   FALSE, <<>>, 0))

\* A handler that returns an empty result instead of raising.
_run_local_segmentation_swallowing(cause) ==
    LET r == generate_mask(cause)
    IN  IF r.kind = "raise" THEN ReturnCand(Candidate("rmbg-local", "first", FALSE, TRUE))
        ELSE r

_run_local_segmentation(cause) ==
    LET r == generate_mask(cause)
    IN  IF r.kind = "raise" /\ r.exc.type \in {"InferenceError", "ModelLoadError"}
        THEN Raise(ValueError(<<"Local processing failed", ": ">> \o r.exc.msg))
        ELSE r

\* The message of the local-only branch's "except Exception as e".
LocalOnlyFailure(e) == ValueError(<<"Local processing failed", ": ">> \o e.msg)

\* A message that leaves the local error out.
BothFailedWithoutLocal(etype, local_e) ==
    ValueError(<<"Both Gemini and local processing failed", ". Gemini: ", etype>>)

\* The message of the auto branch's "except Exception as local_e".
BothFailed(etype, local_e) ==
    ValueError(<<"Both Gemini and local processing failed", ". Gemini: ", etype, ", Local: ">>
               \o local_e.msg)

\* A handler that catches every exception.
FallbackCatchesAll(e) == TRUE

\* "except (QuotaExceededError, ApiTimeoutError) as e" of the auto branch.
FallbackCatches(e) == e.type \in {"QuotaExceededError", "ApiTimeoutError"}

ErrorType(e) == IF e.type = "ApiTimeoutError" THEN "timeout" ELSE "quota exceeded"

\* A handler that catches ValueError only.
RoiCatchesValueErrorOnly(e) == e.type = "ValueError"

\* "except Exception" around the ROI second pass.
RoiCatches(e) == TRUE

----------------------------------------------------------------------------
(* Results of run_segmentation *)

Outcome(kind, exc, mask, box, proc) ==
    [kind |-> kind, exc |-> exc, mask |-> mask, box |-> box, processor_used |-> proc]

Running == Outcome("running", NoExc, NoCandidate, NoCandidate, "none")
Raised(e) == Outcome("raised", e, NoCandidate, NoCandidate, "none")
Returned(mask, box, proc) == Outcome("returned", NoExc, mask, box, proc)

Response(status, retry_after, job_status) ==
    [status |-> status, retry_after |-> retry_after, job_status |-> job_status]

NoResponse == Response(0, 0, "running")

----------------------------------------------------------------------------
(* The run *)

\* No pure function is under check during a run.
NoArgs == "none"
NoRet == [kind |-> "none"]

\* run_segmentation has not been called.
IdleRun ==
    /\ pc = "Idle"
    /\ stage = "first"
    /\ max_edge = first_max_edge
    /\ gen = 1
    /\ attempt = 0
    /\ last_error = NoExc
    /\ legacy_error = NoExc
    /\ new_calls = 0
    /\ legacy_calls = 0
    /\ sleeps = <<>>
    /\ retry_result = NoResult
    /\ gemini_calls = [s \in Stages |-> 0]
    /\ local_calls = 0
    /\ local_outcome = "none"
    /\ cloud_all_quota = TRUE
    /\ deadline_exceeded = FALSE
    /\ primary_end = "none"
    /\ last_quota_text = NoExc
    /\ error_type = "none"
    /\ selected = NoCandidate
    /\ processor_used = "none"
    /\ roi_mask_payload = NoCandidate
    /\ roi_box_2d = NoCandidate
    /\ outcome = Running
    /\ response = NoResponse
    /\ roi_selected = NoCandidate
    /\ roi_raised = FALSE

\* The local model is not loaded and no thread asks for it.
NoProcessor ==
    /\ _processor = 0
    /\ _device = "None"
    /\ new_sessions = 0
    /\ callers = <<>>

\* No job is queued.
NoJobs ==
    /\ jobs = <<>>
    /\ results = <<>>
    /\ tasks = <<>>

Init ==
    /\ processing_mode \in {PROCESSING_MODE_GEMINI, PROCESSING_MODE_LOCAL, PROCESSING_MODE_AUTO}
    /\ first_max_edge \in {SMALLER_EDGE, DEFAULT_MAX_EDGE}
    /\ api_key \in BOOLEAN
    /\ IdleRun
    /\ NoProcessor
    /\ NoJobs
    /\ args = NoArgs
    /\ ret = NoRet

\* The locals of _generate_with_retry at its entry (and once it has ended).
FreshRetry ==
    /\ attempt' = 0
    /\ last_error' = NoExc
    /\ legacy_error' = NoExc
    /\ new_calls' = 0
    /\ legacy_calls' = 0
    /\ sleeps' = <<>>
    /\ retry_result' = NoResult

\* Entry of _generate_with_retry: last_error = None, attempt = 0.
EnterRetry ==
    /\ FreshRetry
    /\ pc' = "CallingPrimary"

\* Entry of _generate_candidates_with_retry(image, edge) for pass st.
StartGenerate(st, edge) ==
    /\ stage' = st
    /\ max_edge' = edge
    /\ gen' = 1
    /\ EnterRetry

\* run_segmentation ends.
Finish(o) ==
    /\ pc' = "Done"
    /\ outcome' = o
    /\ UNCHANGED genv
    /\ FreshRetry

\* run_segmentation from the return of _generate_with_fallback to the ROI
\* provider call: select, _box_to_px of the selected box, crop, suppress, and
\* the second pass calls _generate_candidates_with_retry whatever the mode is.
AfterFirstPass(cand, proc) ==
    /\ selected' = cand
    /\ processor_used' = proc
    /\ IF cand.box_ok
       THEN /\ roi_mask_payload' = cand
            /\ roi_box_2d' = cand
            /\ outcome' = outcome
            /\ StartGenerate("roi", ROI_MAX_EDGE)
       ELSE /\ Finish(Raised(ValueError(<<"box_2d must be a list of four numbers">>)))
            /\ UNCHANGED <<roi_mask_payload, roi_box_2d>>

\* run_segmentation from the end of the ROI provider call to its return: the
\* rest of the try block and its handler, the mask decoding, apply_mask.
\* roi_mask_payload is assigned before _map_box_to_full reads the ROI box.
RoiEnds(gc) ==
    IF gc.kind = "raise" /\ ~RoiCatches(gc.exc)
    THEN /\ Finish(Raised(gc.exc))
         /\ roi_raised' = TRUE
         /\ UNCHANGED <<roi_mask_payload, roi_box_2d, roi_selected>>
    ELSE LET mask == IF gc.kind = "return" THEN gc.cand ELSE roi_mask_payload
             box == IF gc.kind = "return" /\ gc.cand.box_ok THEN gc.cand ELSE selected
         IN  /\ roi_selected' = IF gc.kind = "return" THEN gc.cand ELSE roi_selected
             /\ roi_raised' = (gc.kind = "raise" \/ ~gc.cand.box_ok)
             /\ roi_mask_payload' = mask
             /\ roi_box_2d' = box
             /\ IF mask.mask_ok
                THEN Finish(Returned(mask, box, processor_used))
                ELSE Finish(Raised(ValueError(<<"Invalid mask payload from provider">>)))

\* _generate_with_fallback once the first-pass primary has ended with gc.
FirstPassEnds(gc) ==
    IF gc.kind = "return"
    THEN AfterFirstPass(gc.cand, "gemini") /\ UNCHANGED error_type
    ELSE IF processing_mode = PROCESSING_MODE_AUTO /\ FallbackCatches(gc.exc)
    THEN /\ error_type' = ErrorType(gc.exc)
         /\ pc' = "CallingLocal"
         /\ FreshRetry
         /\ UNCHANGED <<genv, selected, processor_used, roi_mask_payload, roi_box_2d, outcome>>
    ELSE /\ Finish(Raised(gc.exc))
         /\ UNCHANGED <<error_type, selected, processor_used, roi_mask_payload, roi_box_2d>>

\* What a cloud transport answers: a text or an exception; without the key
\* both transports raise before any request is made.
SdkAnswers ==
    IF api_key
    THEN {ReturnText(t) : t \in SdkTexts} \cup {Raise(e) : e \in SdkErrors}
    ELSE {Raise(MissingKeyError)}

SdkDurations == IF api_key THEN {1, API_TIMEOUT + 1} ELSE {1}

NoteCloudCall(elapsed, r) ==
    /\ gemini_calls' = [gemini_calls EXCEPT ![stage] = @ + 1]
    /\ deadline_exceeded' = (deadline_exceeded \/ (stage = "first" /\ elapsed > API_TIMEOUT))
    /\ last_quota_text' =
           IF stage = "first" /\ r.kind = "raise" /\ _is_quota_error(r.exc)
           THEN r.exc ELSE last_quota_text
    /\ cloud_all_quota' = (cloud_all_quota /\ r.kind = "raise" /\ _is_quota_error(r.exc))
    /\ UNCHANGED <<local_calls, local_outcome, primary_end>>

\* run_segmentation up to its first provider call.
RunSegmentation ==
    /\ pc = "Idle"
    /\ IF processing_mode = PROCESSING_MODE_LOCAL
       THEN pc' = "CallingLocal" /\ UNCHANGED <<genv, retryv>>
       ELSE StartGenerate("first", first_max_edge)
    /\ UNCHANGED <<env, hist, runv, response, roiv, purev>>

\* One iteration of the loop of _generate_with_retry up to its sleep, its
\* legacy call or its end.
NewSdkCall ==
    /\ pc = "CallingPrimary"
    /\ \E answer \in SdkAnswers, elapsed \in SdkDurations :
         LET r == TransportOutcome(answer, elapsed)
         IN  /\ new_calls' = new_calls + 1
             /\ NoteCloudCall(elapsed, r)
             /\ IF r.kind = "return"
                THEN /\ retry_result' = r
                     /\ pc' = "GenerateCandidates"
                     /\ UNCHANGED last_error
                ELSE /\ last_error' = r.exc
                     /\ IF _is_quota_error(r.exc)
                        THEN IF ShouldRetry(attempt)
                             THEN pc' = "RetryBackoff" /\ UNCHANGED retry_result
                             ELSE /\ retry_result' =
                                        Raise(QuotaExceededError(_extract_retry_delay(r.exc)))
                                  /\ pc' = "GenerateCandidates"
                        ELSE pc' = "CallingLegacy" /\ UNCHANGED retry_result
    /\ UNCHANGED <<env, genv, attempt, legacy_error, legacy_calls, sleeps, runv, response,
                   roiv, purev>>

\* time.sleep(wait_time); continue -- and the code after the loop when the
\* loop has no iteration left.
BackoffSleep ==
    /\ pc = "RetryBackoff"
    /\ sleeps' = Append(sleeps, wait_time(_extract_retry_delay(last_error), attempt))
    /\ attempt' = attempt + 1
    /\ IF attempt + 1 < MAX_RETRIES
       THEN pc' = "CallingPrimary" /\ UNCHANGED retry_result
       ELSE /\ retry_result' =
                  IF _is_quota_error(last_error)
                  THEN Raise(QuotaExceededError(_extract_retry_delay(last_error)))
                  ELSE Raise(last_error)
            /\ pc' = "GenerateCandidates"
    /\ UNCHANGED <<env, genv, last_error, legacy_error, new_calls, legacy_calls, hist, runv,
                   response, roiv, purev>>

\* The legacy transport, tried after a non-quota error of the new one.
LegacySdkCall ==
    /\ pc = "CallingLegacy"
    /\ \E answer \in SdkAnswers, elapsed \in SdkDurations :
         LET r == TransportOutcome(answer, elapsed)
         IN  /\ legacy_calls' = legacy_calls + 1
             /\ NoteCloudCall(elapsed, r)
             /\ IF r.kind = "return"
                THEN retry_result' = r /\ UNCHANGED legacy_error
                ELSE /\ legacy_error' = r.exc
                     /\ retry_result' = LegacyFailure(r.exc)
    /\ pc' = "GenerateCandidates"
    /\ UNCHANGED <<env, genv, attempt, last_error, new_calls, sleeps, runv, response, roiv,
                   purev>>

\* From the end of _generate_with_retry to the next provider call or the end
\* of run_segmentation: generate_candidates, the smaller-image retry of
\* _generate_candidates_with_retry, _generate_with_fallback, run_segmentation.
GenerateCandidates ==
    /\ pc = "GenerateCandidates"
    /\ LET gc == generate_candidates(retry_result, stage)
       IN  IF gen = 1 /\ RetriesSmaller(gc, max_edge)
           THEN /\ gen' = 2
                /\ EnterRetry
                /\ UNCHANGED <<stage, max_edge, runv, primary_end, roiv>>
           ELSE IF stage = "first"
           THEN /\ primary_end' = IF gc.kind = "return" THEN "Succeeded" ELSE gc.exc.type
                /\ FirstPassEnds(gc)
                /\ UNCHANGED roiv
           ELSE /\ RoiEnds(gc)
                /\ UNCHANGED <<primary_end, error_type, selected, processor_used>>
    /\ UNCHANGED <<env, gemini_calls, local_calls, local_outcome, cloud_all_quota,
                   deadline_exceeded, last_quota_text, response, purev>>

\* The local capability, as the only provider or as the fallback, and what
\* _generate_with_fallback and run_segmentation do with its answer.
LocalCall ==
    /\ pc = "CallingLocal"
    /\ local_calls' = local_calls + 1
    /\ \E cause \in LocalCauses :
         LET r == _run_local_segmentation(cause)
         IN  /\ local_outcome' = cause
             /\ IF r.kind = "return"
                THEN AfterFirstPass(r.cand, "rmbg-local")
                ELSE /\ Finish(Raised(IF processing_mode = PROCESSING_MODE_LOCAL
                                      THEN LocalOnlyFailure(r.exc)
                                      ELSE BothFailed(error_type, r.exc)))
                     /\ UNCHANGED <<selected, processor_used, roi_mask_payload, roi_box_2d>>
    /\ UNCHANGED <<env, gemini_calls, cloud_all_quota, deadline_exceeded, primary_end,
                   last_quota_text, error_type, response, roiv, purev>>

\* SegmentView.post after run_segmentation: persist and answer, or the handlers.
SegmentViewRespond ==
    /\ pc = "Done"
    /\ pc' = "Responded"
    /\ response' =
           IF outcome.kind = "returned" THEN Response(200, 0, "done")
           ELSE IF outcome.exc.type = "ValueError" THEN Response(400, 0, "failed")
           ELSE IF outcome.exc.type = "QuotaExceededError"
               THEN Response(429, outcome.exc.retry_after, "failed")
           ELSE Response(500, 0, "failed")
    /\ UNCHANGED <<env, genv, retryv, hist, runv, roiv, purev>>

Next ==
    \/ RunSegmentation
    \/ NewSdkCall
    \/ BackoffSleep
    \/ LegacySdkCall
    \/ GenerateCandidates
    \/ LocalCall
    \/ SegmentViewRespond

Spec == Init /\ [][Next]_vars

----------------------------------------------------------------------------
(* Claims *)

Ended == pc \in {"Done", "Responded"}

CloudCalls == gemini_calls["first"] + gemini_calls["roi"]

LocalFailed == local_outcome \in {"InferenceError", "ModelLoadError"}

C2_AlternateNeverCalled ==
    Ended => /\ processing_mode = PROCESSING_MODE_LOCAL => CloudCalls = 0
             /\ processing_mode = PROCESSING_MODE_GEMINI => local_calls = 0

\* C3: with processing_mode=local, when the local capability raises
\* InferenceError or ModelLoadError the run ends with an error whose message
\* contains 'Local processing failed', no result is produced and the cloud
\* provider is not called.
C3_LocalFailureIsTerminal ==
    (processing_mode = PROCESSING_MODE_LOCAL /\ LocalFailed)
    => /\ Ended
       /\ outcome.kind = "raised"
       /\ Contains(outcome.exc.msg, "Local processing failed")
       /\ selected = NoCandidate
       /\ CloudCalls = 0

\* C3 witness: a local-only run whose model failed has been answered.
C3_Witness ==
    /\ processing_mode = PROCESSING_MODE_LOCAL
    /\ local_outcome = "InferenceError"
    /\ pc = "Responded"
    /\ response.status = 400

\* C4: with processing_mode=auto, a first-pass primary call that exceeds its
\* call deadline ends in ApiTimeoutError, the local capability is then
\* called, and when it succeeds the result is tagged 'rmbg-local'.
C4_DeadlineSwitchesToLocal ==
    (processing_mode = PROCESSING_MODE_AUTO /\ deadline_exceeded /\ Ended)
    => /\ primary_end = "ApiTimeoutError"
       /\ local_calls = 1
       /\ (local_outcome = "ok" /\ outcome.kind = "returned")
              => outcome.processor_used = "rmbg-local"

\* C5: in every completed run processor_used names the provider that produced
\* the mask handed to post-processing.
C5_ProcessorUsedNamesMaskProvider ==
    outcome.kind = "returned"
    => /\ outcome.processor_used = "gemini" <=> outcome.mask.src = "gemini"
       /\ outcome.processor_used = "rmbg-local" <=> outcome.mask.src = "rmbg-local"

\* C6: with processing_mode=auto the local capability is called only after
\* the primary has ended in QuotaExceededError or ApiTimeoutError; any other
\* primary failure ends the run with that error and the local capability is
\* never called.
C6_FallbackOnlyOnQuotaOrTimeout ==
    processing_mode = PROCESSING_MODE_AUTO
    => /\ (pc = "CallingLocal" \/ local_calls > 0)
              => primary_end \in {"QuotaExceededError", "ApiTimeoutError"}
       /\ primary_end \in {"ValueError", "RuntimeError", "ProviderError"}
              => /\ local_calls = 0
                 /\ Ended
                 /\ outcome.kind = "raised"
                 /\ outcome.exc.type = primary_end

\* C6 witness: an auto run whose primary failed with a generic provider
\* error on both transports has ended without a local call.
C6_Witness ==
    /\ processing_mode = PROCESSING_MODE_AUTO
    /\ primary_end = "ProviderError"
    /\ gemini_calls["first"] > 1
    /\ local_calls = 0
    /\ Ended

InRetry == pc \in {"CallingPrimary", "RetryBackoff", "CallingLegacy"}

ParsedDelay(e) == IF Len(e.delay) = 0 THEN 60 ELSE e.delay[1]

C10_BothFailedIsCombined ==
    ( /\ processing_mode = PROCESSING_MODE_AUTO
      /\ primary_end \in {"QuotaExceededError", "ApiTimeoutError"}
      /\ LocalFailed )
    => /\ Ended
       /\ outcome.kind = "raised"
       /\ outcome.exc.type = "ValueError"
       /\ Contains(outcome.exc.msg, "Both Gemini and local processing failed")
       /\ primary_end = "QuotaExceededError" => Contains(outcome.exc.msg, "quota exceeded")
       /\ primary_end = "ApiTimeoutError" => Contains(outcome.exc.msg, "timeout")
       /\ Contains(outcome.exc.msg, "Mask generation failed")
       /\ selected = NoCandidate
       /\ CloudCalls = gemini_calls["first"]

\* C10 witness: quota exhaustion followed by a failed model load.
C10_Witness ==
    /\ processing_mode = PROCESSING_MODE_AUTO
    /\ primary_end = "QuotaExceededError"
    /\ local_outcome = "ModelLoadError"
    /\ Ended
    /\ Contains(outcome.exc.msg, "Failed to load RMBG model")

----------------------------------------------------------------------------
(* The ROI second pass of run_segmentation *)

\* The second pass ran and its try block raised.
RoiFailed == Ended /\ roi_raised

\* C11: if any step of the ROI second pass raises (the provider, the
\* selection, the reprojection of the refined box), the mask payload and the
\* box that run_segmentation goes on with are both those of the first-pass
\* selected candidate: a refined mask never goes with the first-pass box.
C11_RoiFailureKeepsFirstPass ==
    RoiFailed => (roi_mask_payload = selected /\ roi_box_2d = selected)

\* C12: if the second pass selects a candidate whose mask payload cannot be
\* decoded, run_segmentation still returns, with the mask and the box of the
\* first-pass selected candidate.
C12_UndecodableRoiMaskIsNotFatal ==
    (Ended /\ roi_selected.stage = "roi" /\ ~roi_selected.mask_ok /\ selected.mask_ok)
        => (outcome.kind = "returned" /\ outcome.mask = selected /\ outcome.box = selected)

----------------------------------------------------------------------------
(* Box geometry: _box_to_px, _normalize_box, _map_box_to_full               *)
(*                                                                         *)
(* A normalized box is the sequence <<y0, x0, y1, x1>> of box_2d; a box    *)
(* that is not four numbers is a sequence of another length.  Coordinates  *)
(* are integers; a float that the code computes from them is kept exactly, *)
(* as a fraction <<numerator, denominator>>.                               *)

\* The scale of normalized coordinates.
NORM == 1000

\* Bounds of the inputs of the geometry functions.
MaxSmallDim == 3
MaxNear == 2
MaxOver == 1

Max(a, b) == IF a >= b THEN a ELSE b

\* int(round(n / d)) for d > 0: round() takes the even neighbour of a half.
RoundHalfEven(n, d) ==
    LET q == n \div d
        r == n % d
    IN  IF 2 * r < d THEN q
        ELSE IF 2 * r > d THEN q + 1
        ELSE IF q % 2 = 0 THEN q ELSE q + 1

\* The guard of _box_to_px and _normalize_box raises ValueError.
BoxIsMalformed(box_2d) == Len(box_2d) # 4

\* _box_to_px without the repair of an empty box.
_box_to_px_unrepaired(box_2d, width, height) ==
    LET x0_px == Max(0, Min(width - 1, RoundHalfEven(box_2d[2] * width, NORM)))
        x1_px == Max(1, Min(width, RoundHalfEven(box_2d[4] * width, NORM)))
        y0_px == Max(0, Min(height - 1, RoundHalfEven(box_2d[1] * height, NORM)))
        y1_px == Max(1, Min(height, RoundHalfEven(box_2d[3] * height, NORM)))
    IN  <<x0_px, y0_px, x1_px, y1_px>>

\* _box_to_px(box_2d, width, height) of a box of four numbers: <<x0, y0, x1, y1>>.
_box_to_px(box_2d, width, height) ==
    LET x0_px == Max(0, Min(width - 1, RoundHalfEven(box_2d[2] * width, NORM)))
        x1_px == Max(1, Min(width, RoundHalfEven(box_2d[4] * width, NORM)))
        y0_px == Max(0, Min(height - 1, RoundHalfEven(box_2d[1] * height, NORM)))
        y1_px == Max(1, Min(height, RoundHalfEven(box_2d[3] * height, NORM)))
    IN  <<x0_px,
          y0_px,
          IF x1_px <= x0_px THEN Min(width, x0_px + 1) ELSE x1_px,
          IF y1_px <= y0_px THEN Min(height, y0_px + 1) ELSE y1_px>>

\* postprocess._normalize_box(box_2d, width, height) of a box of four numbers.
_normalize_box(box_2d, width, height) ==
    LET x0_px == Max(0, Min(width - 1, RoundHalfEven(box_2d[2] * width, NORM)))
        x1_px == Max(1, Min(width, RoundHalfEven(box_2d[4] * width, NORM)))
        y0_px == Max(0, Min(height - 1, RoundHalfEven(box_2d[1] * height, NORM)))
        y1_px == Max(1, Min(height, RoundHalfEven(box_2d[3] * height, NORM)))
    IN  <<x0_px,
          y0_px,
          IF x1_px <= x0_px THEN Min(width, x0_px + 1) ELSE x1_px,
          IF y1_px <= y0_px THEN Min(height, y0_px + 1) ELSE y1_px>>

\* _map_box_to_full with the axes of its result exchanged.
_map_box_to_full_swapped(box_2d, roi_bounds, full_size) ==
    LET roi_w == Max(1, roi_bounds[3] - roi_bounds[1])
        roi_h == Max(1, roi_bounds[4] - roi_bounds[2])
        full_w == full_size[1]
        full_h == full_size[2]
        fx0 == Max(0, Min(NORM * full_w, NORM * roi_bounds[1] + box_2d[2] * roi_w))
        fx1 == Max(0, Min(NORM * full_w, NORM * roi_bounds[1] + box_2d[4] * roi_w))
        fy0 == Max(0, Min(NORM * full_h, NORM * roi_bounds[2] + box_2d[1] * roi_h))
        fy1 == Max(0, Min(NORM * full_h, NORM * roi_bounds[2] + box_2d[3] * roi_h))
    IN  <<<<fx0, full_w>>, <<fy0, full_h>>, <<fx1, full_w>>, <<fy1, full_h>>>>

\* _map_box_to_full(roi_box_2d, (left, top, right, bottom), (full_w, full_h)):
\* the four floats [y0, x0, y1, x1], each as a fraction.  fx0 etc. are kept
\* times NORM.
_map_box_to_full(box_2d, roi_bounds, full_size) ==
    LET roi_w == Max(1, roi_bounds[3] - roi_bounds[1])
        roi_h == Max(1, roi_bounds[4] - roi_bounds[2])
        full_w == full_size[1]
        full_h == full_size[2]
        fx0 == Max(0, Min(NORM * full_w, NORM * roi_bounds[1] + box_2d[2] * roi_w))
        fx1 == Max(0, Min(NORM * full_w, NORM * roi_bounds[1] + box_2d[4] * roi_w))
        fy0 == Max(0, Min(NORM * full_h, NORM * roi_bounds[2] + box_2d[1] * roi_h))
        fy1 == Max(0, Min(NORM * full_h, NORM * roi_bounds[2] + box_2d[3] * roi_h))
    IN  <<<<fy0, full_h>>, <<fx0, full_w>>, <<fy1, full_h>>, <<fx1, full_w>>>>

\* The image sizes and the box coordinates the geometry functions are given:
\* small images and the image whose pixel is one unit; coordinates around
\* both ends of the scale, inside and outside of it, and its middle.
GeomDims == (1..MaxSmallDim) \cup {NORM}
GeomCoords ==
    ((0 - MaxOver)..MaxNear) \cup ((NORM - MaxNear)..(NORM + MaxOver)) \cup {NORM \div 2}
GeomBoxes ==
    {<<y0, x0, y1, x1>> : y0 \in GeomCoords, x0 \in GeomCoords,
                          y1 \in GeomCoords, x1 \in GeomCoords}

\* No run_segmentation is in progress.
NoRun ==
    /\ processing_mode = PROCESSING_MODE_AUTO
    /\ first_max_edge = DEFAULT_MAX_EDGE
    /\ api_key = FALSE
    /\ IdleRun

\* No request is being served while a pure function is under check.
NoRequest ==
    /\ NoRun
    /\ NoProcessor
    /\ NoJobs

GeomInit ==
    /\ NoRequest
    /\ args \in [box_2d : GeomBoxes \cup {<<0, 0, NORM>>}, width : GeomDims, height : GeomDims]
    /\ ret = NoRet

\* _box_to_px and _normalize_box of the box, and the pixel box mapped by
\* _map_box_to_full with the whole image as the crop.
BoxToPx ==
    /\ ret = NoRet
    /\ ret' =
         IF BoxIsMalformed(args.box_2d)
         THEN [kind |-> "raise", px |-> <<>>, post_px |-> <<>>, back |-> <<>>]
         ELSE LET px == _box_to_px(args.box_2d, args.width, args.height)
              IN  [kind |-> "return",
                   px |-> px,
                   post_px |-> _normalize_box(args.box_2d, args.width, args.height),
                   back |-> _map_box_to_full(<<px[2], px[1], px[4], px[3]>>,
                                             <<0, 0, args.width, args.height>>,
                                             <<args.width, args.height>>)]
    /\ UNCHANGED <<env, pc, genv, retryv, hist, runv, response, roiv, args, procv, taskv>>

GeomNext == BoxToPx

SpecGeom == GeomInit /\ [][GeomNext]_vars

\* A pixel box <<x0, y0, x1, y1>> is a non-empty box inside the image.
InsideImage(px, width, height) ==
    /\ 0 <= px[1] /\ px[1] < px[3] /\ px[3] <= width
    /\ 0 <= px[2] /\ px[2] < px[4] /\ px[4] <= height

GeomReturned == ret.kind = "return"

\* C17: for every width >= 1, height >= 1 and every box of four numbers
\* (inverted, empty and out-of-range ones too), _box_to_px and _normalize_box
\* each return 0 <= x0 < x1 <= width and 0 <= y0 < y1 <= height.
C17_PixelBoxInsideImage ==
    GeomReturned =>
        /\ InsideImage(ret.px, args.width, args.height)
        /\ InsideImage(ret.post_px, args.width, args.height)

\* An inverted, out-of-range box on the smallest image has been converted.
C17_Witness ==
    /\ GeomReturned
    /\ args.box_2d[4] < args.box_2d[2]
    /\ args.box_2d[1] > NORM
    /\ args.width = 1
    /\ InsideImage(ret.px, args.width, args.height)

\* x1 > x0, y1 > y0, all within [0, NORM].
ProperBox(b) ==
    /\ \A i \in 1..4 : 0 <= b[i] /\ b[i] <= NORM
    /\ b[3] > b[1]
    /\ b[4] > b[2]

\* |n/d - v| <= 1
WithinOneUnit(frac, v) ==
    /\ frac[1] - v * frac[2] <= frac[2]
    /\ v * frac[2] - frac[1] <= frac[2]

RoundTripWithinOneUnit == \A i \in 1..4 : WithinOneUnit(ret.back[i], args.box_2d[i])

\* C18 as stated: for every proper normalized box and every image size,
\* _box_to_px followed by _map_box_to_full with the whole image as the crop
\* gives back the box within 1 unit in every coordinate.
C18_RoundTripAnySize ==
    (GeomReturned /\ ProperBox(args.box_2d)) => RoundTripWithinOneUnit

\* C18, amended: the round trip is within 1 unit for proper boxes of integer
\* coordinates on the image of NORM x NORM pixels, where a pixel is a unit.
C18_RoundTripUnitImage ==
    (GeomReturned /\ ProperBox(args.box_2d) /\ args.width = NORM /\ args.height = NORM)
        => RoundTripWithinOneUnit

C18_Witness ==
    /\ GeomReturned
    /\ ProperBox(args.box_2d)
    /\ args.width = NORM /\ args.height = NORM
    /\ args.box_2d[1] # args.box_2d[2]
    /\ args.box_2d[3] = NORM
    /\ RoundTripWithinOneUnit

----------------------------------------------------------------------------
(* Candidate scoring and selection: _score_candidate, _select_candidate     *)
(*                                                                         *)
(* A float metric in [0, 1] is kept in steps of 1/Q, rounded down; a score *)
(* and a penalty are kept in steps of 1/(100 * Q), so that the weights are *)
(* whole percents.  A candidate is [label, box_2d, confidence, mask, edge]: *)
(* confidence is <<>> (absent or not a number) or <<c>>; mask is <<>>      *)
(* (absent or undecodable) or <<r>>, r the clipped fill of its image; edge *)
(* is _edge_density of the image inside the candidate's box; label is the  *)
(* provider's label.                                                       *)

HalfQ == 2
Q == 2 * HalfQ
ScoreOne == 100 * Q

\* CANDIDATE_AREA_MIN and CANDIDATE_AREA_MAX, in percent.
CANDIDATE_AREA_MIN == 8
CANDIDATE_AREA_MAX == 70

\* max(0.0, min(1.0, v)) of a metric.
Clip(v) == Max(0, Min(Q, v))

\* _center_score: 1 - dist / max_dist, both distances doubled and squared.
_center_score(x0, y0, x1, y1, width, height) ==
    LET dist2 == (x0 + x1 - width) * (x0 + x1 - width) + (y0 + y1 - height) * (y0 + y1 - height)
        max_dist2 == width * width + height * height
        fits == {k \in 0..Q : Q * Q * dist2 <= (Q - k) * (Q - k) * max_dist2}
    IN  IF max_dist2 <= 0 \/ fits = {} THEN 0
        ELSE CHOOSE k \in fits : \A j \in fits : j <= k

\* _area_score of area_ratio = area / total.
_area_score(area, total, min_ratio, max_ratio) ==
    IF area <= 0 THEN 0
    ELSE IF 100 * area < min_ratio * total
        THEN Clip((Q * 100 * area) \div (min_ratio * total))
    ELSE IF 100 * area > max_ratio * total
        THEN Clip((Q * (100 * total - 100 * area)) \div ((100 - max_ratio) * total))
    ELSE Q

\* _rectangularity: 0.5 without a mask or when decoding it fails.
_rectangularity(mask) == IF mask = <<>> THEN HalfQ ELSE Clip(mask[1])

\* The confidence of _score_candidate: 0.5 by default, clipped.
Confidence(confidence) == IF confidence = <<>> THEN HalfQ ELSE Clip(confidence[1])

\* The margin of _border_touch_penalty without its lower bound of 2 pixels.
Margin_one_percent(width, height) == Min(width, height) \div 100

\* margin = max(2, int(min(width, height) * 0.01))
Margin(width, height) == Max(2, Min(width, height) \div 100)

Touches(x0, y0, x1, y1, width, height) ==
    LET margin == Margin(width, height)
    IN  (IF x0 <= margin THEN 1 ELSE 0) + (IF y0 <= margin THEN 1 ELSE 0)
        + (IF x1 >= width - margin THEN 1 ELSE 0) + (IF y1 >= height - margin THEN 1 ELSE 0)

\* _border_touch_penalty that never penalises.
_border_touch_penalty_none(x0, y0, x1, y1, width, height, allow_touch) == 0

\* _border_touch_penalty, in hundredths.
_border_touch_penalty(x0, y0, x1, y1, width, height, allow_touch) ==
    IF allow_touch THEN 0
    ELSE LET touches == Touches(x0, y0, x1, y1, width, height)
         IN  IF touches >= 2 THEN 35
             ELSE IF touches = 1 THEN 15
             ELSE 0

Metrics(conf, center, area, rect, edge, penalty) ==
    [confidence |-> conf, center |-> center, area |-> area, rectangularity |-> rect,
     edge |-> edge, penalty |-> penalty]

\* _score_candidate raises: _box_to_px rejects the box.
ScoreRaises(candidate) == BoxIsMalformed(candidate.box_2d)

\* _score_candidate of a candidate with a box of four numbers.
_score_candidate(candidate, width, height, focus_mode, allow_border_touch) ==
    LET px == _box_to_px(candidate.box_2d, width, height)
        box_w == Max(1, px[3] - px[1])
        box_h == Max(1, px[4] - px[2])
        conf == Confidence(candidate.confidence)
        center == _center_score(px[1], px[2], px[3], px[4], width, height)
        area == _area_score(box_w * box_h, Max(1, width * height),
                            CANDIDATE_AREA_MIN, CANDIDATE_AREA_MAX)
        rect == _rectangularity(candidate.mask)
        edge == Clip(candidate.edge)
        penalty == _border_touch_penalty(px[1], px[2], px[3], px[4], width, height,
                                         allow_border_touch)
        score == IF focus_mode = "center"
                     THEN 60 * center + 20 * area + 10 * conf + 10 * edge
                 ELSE IF focus_mode = "largest"
                     THEN 60 * area + 20 * center + 10 * conf + 10 * rect
                 ELSE IF focus_mode = "detailed"
                     THEN 60 * edge + 20 * center + 10 * area + 10 * conf
                 ELSE 30 * conf + 25 * center + 20 * area + 15 * rect + 10 * edge
    IN  [score |-> Max(0, Min(ScoreOne, score - penalty * Q)),
         metrics |-> Metrics(conf, center, area, rect, edge, penalty)]

\* The try/except of the scoring loop that keeps the confidence of a
\* candidate whose scoring raised.
ScoreOrZeroKeepingConfidence(item, width, height, focus_mode, allow_border_touch) ==
    IF ScoreRaises(item)
    THEN [score |-> 0, metrics |-> Metrics(Confidence(item.confidence), 0, 0, 0, 0, 0)]
    ELSE _score_candidate(item, width, height, focus_mode, allow_border_touch)

\* The try/except of the scoring loop of _select_candidate.
ScoreOrZero(item, width, height, focus_mode, allow_border_touch) ==
    IF ScoreRaises(item)
    THEN [score |-> 0, metrics |-> Metrics(0, 0, 0, 0, 0, 0)]
    ELSE _score_candidate(item, width, height, focus_mode, allow_border_touch)

\* enriched = dict(item) with its score and metrics.
Enriched(item, sm) ==
    [label |-> item.label, box_2d |-> item.box_2d, confidence |-> item.confidence,
     mask |-> item.mask, edge |-> item.edge, score |-> sm.score, metrics |-> sm.metrics]

\* The index test of _select_candidate that misses index 0.
IndexInRangeFromOne(candidate_index, n) ==
    candidate_index # <<>> /\ 0 < candidate_index[1] /\ candidate_index[1] < n

\* candidate_index is not None and 0 <= candidate_index < len(scored)
IndexInRange(candidate_index, n) ==
    candidate_index # <<>> /\ 0 <= candidate_index[1] /\ candidate_index[1] < n

\* max(range(n), key) that returns the last of the maximal indices.
BestIndexLast(scored) ==
    CHOOSE i \in 0..(Len(scored) - 1) :
        /\ \A j \in 0..(Len(scored) - 1) : scored[j + 1].score <= scored[i + 1].score
        /\ \A j \in (i + 1)..(Len(scored) - 1) : scored[j + 1].score < scored[i + 1].score

\* max(range(len(scored)), key=score) of a non-empty list: max returns the
\* first of the maximal items.
BestIndex(scored) ==
    CHOOSE i \in 0..(Len(scored) - 1) :
        /\ \A j \in 0..(Len(scored) - 1) : scored[j + 1].score <= scored[i + 1].score
        /\ \A j \in 0..(i - 1) : scored[j + 1].score < scored[i + 1].score

NoScored == Enriched([label |-> "", box_2d |-> <<>>, confidence |-> <<>>, mask |-> <<>>,
                      edge |-> 0],
                     [score |-> 0, metrics |-> Metrics(0, 0, 0, 0, 0, 0)])

Selected(kind, chosen, scored, index) ==
    [kind |-> kind, selected |-> chosen, scored |-> scored, index |-> index]

\* _select_candidate that returns an empty selection for an empty list.
_select_candidate_or_nothing(candidates, width, height, focus_mode, allow_border_touch, candidate_index) ==
    LET scored == [i \in 1..Len(candidates) |->
                      Enriched(candidates[i], ScoreOrZero(candidates[i], width, height,
                                                          focus_mode, allow_border_touch))]
    IN  IF IndexInRange(candidate_index, Len(scored))
        THEN Selected("return", scored[candidate_index[1] + 1], scored, candidate_index[1])
        ELSE IF Len(scored) = 0
        THEN Selected("return", NoScored, scored, 0)
        ELSE Selected("return", scored[BestIndex(scored) + 1], scored, BestIndex(scored))

\* _select_candidate; indices count from 0 as in the code.  max() of an
\* empty range raises ValueError.
_select_candidate(candidates, width, height, focus_mode, allow_border_touch, candidate_index) ==
    LET scored == [i \in 1..Len(candidates) |->
                      Enriched(candidates[i], ScoreOrZero(candidates[i], width, height,
                                                          focus_mode, allow_border_touch))]
    IN  IF IndexInRange(candidate_index, Len(scored))
        THEN Selected("return", scored[candidate_index[1] + 1], scored, candidate_index[1])
        ELSE IF Len(scored) = 0
        THEN Selected("raise", NoScored, scored, 0)
        ELSE Selected("return", scored[BestIndex(scored) + 1], scored, BestIndex(scored))

\* Bound of the candidate lists.
MaxCands == 3

FocusModes == {"auto", "center", "largest", "detailed", "other"}

\* The boxes of the candidates under selection: not four numbers, the whole
\* image, its middle.
SelectBoxes ==
    {<<0, 0, NORM>>, <<0, 0, NORM, NORM>>,
     <<NORM \div 4, NORM \div 4, 3 * (NORM \div 4), 3 * (NORM \div 4)>>}

SelectCands ==
    [label : {"product"}, box_2d : SelectBoxes, confidence : {<<0>>, <<Q>>}, mask : {<<>>},
     edge : {0}]

RECURSIVE ListsUpTo(_, _)
ListsUpTo(S, n) ==
    IF n = 0 THEN {<<>>}
    ELSE LET shorter == ListsUpTo(S, n - 1)
         IN  shorter \cup {Append(l, c) : l \in {s \in shorter : Len(s) = n - 1}, c \in S}

SelectInit ==
    /\ NoRequest
    /\ args \in [candidates : ListsUpTo(SelectCands, MaxCands),
                 width : {NORM}, height : {NORM},
                 focus_mode : FocusModes,
                 allow_border_touch : BOOLEAN,
                 candidate_index : {<<>>} \cup {<<i>> : i \in (0 - 1)..MaxCands}]
    /\ ret = NoRet

SelectCandidate ==
    /\ ret = NoRet
    /\ ret' = _select_candidate(args.candidates, args.width, args.height, args.focus_mode,
                                args.allow_border_touch, args.candidate_index)
    /\ UNCHANGED <<env, pc, genv, retryv, hist, runv, response, roiv, args, procv, taskv>>

SelectNext == SelectCandidate

SpecSelect == SelectInit /\ [][SelectNext]_vars

Called == ret.kind # "none"

\* A candidate_index was given and it is an index of the candidate list.
IndexGiven ==
    /\ args.candidate_index # <<>>
    /\ args.candidate_index[1] >= 0
    /\ args.candidate_index[1] < Len(args.candidates)

\* The candidate that an enriched one was made from.
ItemOf(e) ==
    [label |-> e.label, box_2d |-> e.box_2d, confidence |-> e.confidence, mask |-> e.mask,
     edge |-> e.edge]

\* C13: for a non-empty list and 0 <= candidate_index < n, _select_candidate
\* returns the candidate at that index and that index, whatever the scores.
C13_IndexOverridesScores ==
    (Called /\ IndexGiven)
        => /\ ret.kind = "return"
           /\ ret.index = args.candidate_index[1]
           /\ ret.selected = ret.scored[ret.index + 1]
           /\ ItemOf(ret.selected) = args.candidates[ret.index + 1]

\* The chosen candidate's scoring raised and another one has a positive score.
C13_Witness ==
    /\ Called
    /\ IndexGiven
    /\ ret.kind = "return"
    /\ ret.index = args.candidate_index[1]
    /\ ScoreRaises(args.candidates[ret.index + 1])
    /\ ret.selected.score = 0
    /\ \E j \in 1..Len(ret.scored) : ret.scored[j].score > 0

\* C14: when candidate_index is absent or out of range (negative or >= n),
\* _select_candidate returns the candidate of maximal score, and of several
\* such the one of lowest index.
C14_BestScoreLowestIndex ==
    (Called /\ Len(args.candidates) > 0
            /\ ~IndexGiven)
        => /\ ret.kind = "return"
           /\ ret.index \in 0..(Len(ret.scored) - 1)
           /\ ret.selected = ret.scored[ret.index + 1]
           /\ \A j \in 1..Len(ret.scored) : ret.scored[j].score <= ret.selected.score
           /\ \A j \in 1..ret.index : ret.scored[j].score < ret.selected.score

\* A tie of the maximal score, with an index past the end of the list.
C14_Witness ==
    /\ Called
    /\ args.candidate_index = <<Len(args.candidates)>>
    /\ ret.kind = "return"
    /\ ret.index = 1
    /\ \E j \in 1..Len(ret.scored) : j > ret.index + 1 /\ ret.scored[j].score = ret.selected.score
    /\ ret.scored[1].score < ret.selected.score

\* C15: on an empty candidate list _select_candidate raises, never returns,
\* with or without a candidate_index.
C15_EmptyListRaises ==
    (Called /\ Len(args.candidates) = 0) => ret.kind = "raise"

C15_Witness ==
    /\ Called
    /\ Len(args.candidates) = 0
    /\ args.candidate_index = <<0>>
    /\ ret.kind = "raise"

\* C16: a candidate whose scoring raises gets score 0 and all six metrics 0,
\* the others are scored as _score_candidate scores them, and the scored
\* list has the length and the order of the input.
C16_ScoringFailureIsZero ==
    (Called /\ Len(args.candidates) > 0)
        => /\ Len(ret.scored) = Len(args.candidates)
           /\ \A i \in 1..Len(args.candidates) :
                /\ ItemOf(ret.scored[i]) = args.candidates[i]
                /\ IF ScoreRaises(args.candidates[i])
                   THEN /\ ret.scored[i].score = 0
                        /\ ret.scored[i].metrics = Metrics(0, 0, 0, 0, 0, 0)
                   ELSE LET sm == _score_candidate(args.candidates[i], args.width, args.height,
                                                   args.focus_mode, args.allow_border_touch)
                        IN  /\ ret.scored[i].score = sm.score
                            /\ ret.scored[i].metrics = sm.metrics

\* A candidate whose box is not four numbers stands between two scored ones.
C16_Witness ==
    /\ Called
    /\ Len(args.candidates) = 3
    /\ ScoreRaises(args.candidates[2])
    /\ args.candidates[2].confidence = <<Q>>
    /\ ret.scored[2].score = 0
    /\ ret.scored[2].metrics.confidence = 0
    /\ ret.scored[1].score > 0
    /\ ret.scored[3].score > ret.scored[1].score

----------------------------------------------------------------------------
(* The score of one candidate with and without the border-touch penalty *)

\* The boxes of the candidates under scoring: not four numbers, the whole
\* image and more than it, its middle, a corner, a box along one edge.
ScoreBoxes ==
    {<<0, 0, NORM>>,
     <<0, 0, NORM, NORM>>,
     <<0 - MaxOver, 0, NORM + MaxOver, NORM>>,
     <<NORM \div 4, NORM \div 4, 3 * (NORM \div 4), 3 * (NORM \div 4)>>,
     <<0, 0, NORM \div 2, NORM \div 2>>,
     <<NORM \div 4, 0, 3 * (NORM \div 4), NORM \div 2>>}

ScoreCands ==
    [label : {"product"},
     box_2d : ScoreBoxes,
     confidence : {<<>>} \cup {<<c>> : c \in (0 - 1)..(Q + 1)},
     mask : {<<>>} \cup {<<r>> : r \in 0..Q},
     edge : 0..Q]

ScoreInit ==
    /\ NoRequest
    /\ args \in [candidate : ScoreCands, width : GeomDims, height : GeomDims,
                 focus_mode : FocusModes]
    /\ ret = NoRet

\* _score_candidate of the candidate, with allow_border_touch and without.
ScoreCandidate ==
    /\ ret = NoRet
    /\ ret' =
         IF ScoreRaises(args.candidate)
         THEN [kind |-> "raise",
               allowed |-> ScoreOrZero(args.candidate, args.width, args.height,
                                       args.focus_mode, TRUE),
               penalised |-> ScoreOrZero(args.candidate, args.width, args.height,
                                         args.focus_mode, FALSE)]
         ELSE [kind |-> "return",
               allowed |-> _score_candidate(args.candidate, args.width, args.height,
                                            args.focus_mode, TRUE),
               penalised |-> _score_candidate(args.candidate, args.width, args.height,
                                              args.focus_mode, FALSE)]
    /\ UNCHANGED <<env, pc, genv, retryv, hist, runv, response, roiv, args, procv, taskv>>

ScoreNext == ScoreCandidate

SpecScore == ScoreInit /\ [][ScoreNext]_vars

\* The candidate's pixel box is the whole image.
SpansImage ==
    /\ ~ScoreRaises(args.candidate)
    /\ _box_to_px(args.candidate.box_2d, args.width, args.height)
           = <<0, 0, args.width, args.height>>

\* C19: for every focus mode, image and candidate whose box spans the full
\* width and height of the image, the score with allow_border_touch=False is
\* strictly lower than the score with allow_border_touch=True.
C19_BorderTouchLowersScore ==
    (ret.kind = "return" /\ SpansImage) => ret.penalised.score < ret.allowed.score

\* A full-image box on the NORM x NORM image whose penalised score is cut at 0.
C19_Witness ==
    /\ ret.kind = "return"
    /\ SpansImage
    /\ args.width = NORM /\ args.height = NORM
    /\ args.focus_mode = "largest"
    /\ ret.penalised.metrics.penalty = 35
    /\ ret.penalised.score = 0
    /\ ret.allowed.score > 0

----------------------------------------------------------------------------
(* _border_touch_penalty on pixel boxes near the edges of the image *)

MaxHundreds == 3
MaxEdgeDist == 4

PenaltyDims == {100 * k : k \in 1..MaxHundreds}

PenaltyInit ==
    /\ NoRequest
    /\ \E width \in PenaltyDims, height \in PenaltyDims :
         args \in [x0 : 0..MaxEdgeDist, y0 : 0..MaxEdgeDist,
                   x1 : (width - MaxEdgeDist)..width, y1 : (height - MaxEdgeDist)..height,
                   width : {width}, height : {height}, allow_touch : BOOLEAN]
    /\ ret = NoRet

BorderTouchPenalty ==
    /\ ret = NoRet
    /\ ret' = [kind |-> "return",
               penalty |-> _border_touch_penalty(args.x0, args.y0, args.x1, args.y1,
                                                 args.width, args.height, args.allow_touch)]
    /\ UNCHANGED <<env, pc, genv, retryv, hist, runv, response, roiv, args, procv, taskv>>

PenaltyNext == BorderTouchPenalty

SpecPenalty == PenaltyInit /\ [][PenaltyNext]_vars

\* The number of edges the box lies within m/d pixels of.
EdgesWithin(m, d) ==
    (IF d * args.x0 <= m THEN 1 ELSE 0) + (IF d * args.y0 <= m THEN 1 ELSE 0)
    + (IF d * (args.width - args.x1) <= m THEN 1 ELSE 0)
    + (IF d * (args.height - args.y1) <= m THEN 1 ELSE 0)

\* 0 when touching is allowed, else 0.35 for two edges or more, 0.15 for one.
PenaltyOf(edges) ==
    IF args.allow_touch THEN 0
    ELSE IF edges >= 2 THEN 35
    ELSE IF edges = 1 THEN 15
    ELSE 0

SmallerDim == IF args.width <= args.height THEN args.width ELSE args.height

\* C20 as stated: the penalty is 0 when touching is allowed, else 0.35, 0.15
\* or 0 for two or more, one or no touched edges, an edge being touched
\* exactly when the box lies within 1% of the smaller image dimension of it.
C20_MarginIsOnePercent ==
    ret.kind = "return" => ret.penalty = PenaltyOf(EdgesWithin(SmallerDim, 100))

\* C20, amended: the same, an edge being touched exactly when the box lies
\* within max(2, int(1% of the smaller image dimension)) pixels of it.
C20_MarginIsAtLeastTwoPixels ==
    ret.kind = "return" =>
        ret.penalty = PenaltyOf(EdgesWithin(IF SmallerDim \div 100 >= 2
                                            THEN SmallerDim \div 100 ELSE 2, 1))

\* One edge is 2 pixels away on a 100-pixel image, the others are farther.
C20_Witness ==
    /\ ret.kind = "return"
    /\ ~args.allow_touch
    /\ SmallerDim = 100
    /\ args.x0 = 2 /\ args.y0 > 2
    /\ args.width - args.x1 > 2 /\ args.height - args.y1 > 2
    /\ ret.penalty = 15

----------------------------------------------------------------------------
(* The backoff sleep of _generate_with_retry *)

\* C26: the backoff sleep after the failed quota attempt k (from 0) lasts
\* min(d, BASE_DELAY * 2^k), d the delay parsed from the error text (60
\* without one) and BASE_DELAY = 3; the last attempt is not followed by a
\* sleep, so one _generate_with_retry call sleeps at most once, for at most
\* 3 seconds.
C26_BackoffSleepIsCapped ==
    /\ Len(sleeps) <= 1
    /\ \A i \in 1..Len(sleeps) : sleeps[i] <= 3
    /\ pc = "RetryBackoff" => attempt < MAX_RETRIES - 1
    /\ (pc = "CallingPrimary" /\ Len(sleeps) = 1)
           => /\ attempt = 1
              /\ sleeps[1] = IF ParsedDelay(last_error) <= 3 * Pow2(attempt - 1)
                             THEN ParsedDelay(last_error) ELSE 3 * Pow2(attempt - 1)

\* The provider suggested a delay below BASE_DELAY and the run slept that long.
C26_Witness ==
    /\ pc = "CallingPrimary"
    /\ sleeps = <<2>>
    /\ last_error.delay = <<2>>

----------------------------------------------------------------------------
(* The ROI crop: _crop_roi and the focus box of run_segmentation *)

\* ROI_MARGIN, in percent.
ROI_MARGIN == 15

MaxCropDim == 8
MaxMarginFactor == 2

\* _crop_roi that does not clamp the far sides to the image.
_crop_roi_unclamped(box_px, width, height, margin_ratio) ==
    LET box_w == Max(1, box_px[3] - box_px[1])
        box_h == Max(1, box_px[4] - box_px[2])
        pad == (Max(box_w, box_h) * margin_ratio) \div 100
    IN  <<Max(0, box_px[1] - pad), Max(0, box_px[2] - pad), box_px[3] + pad, box_px[4] + pad>>

\* The bounds (left, top, right, bottom) of _crop_roi; margin_ratio in percent.
_crop_roi(box_px, width, height, margin_ratio) ==
    LET box_w == Max(1, box_px[3] - box_px[1])
        box_h == Max(1, box_px[4] - box_px[2])
        pad == (Max(box_w, box_h) * margin_ratio) \div 100
    IN  <<Max(0, box_px[1] - pad), Max(0, box_px[2] - pad),
          Min(width, box_px[3] + pad), Min(height, box_px[4] + pad)>>

\* roi_focus_box of run_segmentation.
roi_focus_box(selected_box_px, roi_bounds) ==
    <<Max(0, selected_box_px[1] - roi_bounds[1]), Max(0, selected_box_px[2] - roi_bounds[2]),
      Max(1, selected_box_px[3] - roi_bounds[1]), Max(1, selected_box_px[4] - roi_bounds[2])>>

MarginRatios == {0, ROI_MARGIN} \cup {100 * k : k \in 1..MaxMarginFactor}

CropInit ==
    /\ NoRequest
    /\ \E width \in 1..MaxCropDim, height \in 1..MaxCropDim :
         args \in [box_px : {b \in [1..4 -> 0..Max(width, height)] :
                                /\ b[1] < b[3] /\ b[3] <= width
                                /\ b[2] < b[4] /\ b[4] <= height},
                   width : {width}, height : {height}, margin_ratio : MarginRatios]
    /\ ret = NoRet

CropRoi ==
    /\ ret = NoRet
    /\ ret' = LET roi_bounds == _crop_roi(args.box_px, args.width, args.height, args.margin_ratio)
              IN  [kind |-> "return",
                   roi_bounds |-> roi_bounds,
                   roi_focus_box |-> roi_focus_box(args.box_px, roi_bounds)]
    /\ UNCHANGED <<env, pc, genv, retryv, hist, runv, response, roiv, args, procv, taskv>>

CropNext == CropRoi

SpecCrop == CropInit /\ [][CropNext]_vars

\* C28: for every image size, every valid selected pixel box and every
\* margin ratio >= 0 the crop bounds satisfy 0 <= left <= x0 < x1 <= right <=
\* width and 0 <= top <= y0 < y1 <= bottom <= height, and the focus box lies
\* inside the crop: 0 <= fx0 < fx1 <= right - left, 0 <= fy0 < fy1 <= bottom - top.
C28_CropContainsBox ==
    ret.kind = "return" =>
        LET b == args.box_px
            r == ret.roi_bounds
            f == ret.roi_focus_box
        IN  /\ 0 <= r[1] /\ r[1] <= b[1] /\ b[1] < b[3] /\ b[3] <= r[3] /\ r[3] <= args.width
            /\ 0 <= r[2] /\ r[2] <= b[2] /\ b[2] < b[4] /\ b[4] <= r[4] /\ r[4] <= args.height
            /\ 0 <= f[1] /\ f[1] < f[3] /\ f[3] <= r[3] - r[1]
            /\ 0 <= f[2] /\ f[2] < f[4] /\ f[4] <= r[4] - r[2]

\* The default margin pads the box by a pixel, and the image cuts the crop on
\* its right while the left has room.
C28_Witness ==
    /\ ret.kind = "return"
    /\ args.margin_ratio = ROI_MARGIN
    /\ ret.roi_bounds[1] = args.box_px[1] - 1
    /\ ret.roi_bounds[1] > 0
    /\ ret.roi_bounds[3] = args.width
    /\ args.box_px[3] = args.width
    /\ ret.roi_focus_box[1] = 1

----------------------------------------------------------------------------
(* The result of run_segmentation: selection, candidate payloads, ROI pass *)

\* One entry of candidate_payloads: the mask is left out.
candidate_payload(item) ==
    [label |-> item.label, box_2d |-> item.box_2d,
     confidence |-> item.metrics.confidence, score |-> item.score]

\* The list comprehension over scored_candidates.
RECURSIVE PayloadsOf(_)
PayloadsOf(items) ==
    IF items = <<>> THEN <<>>
    ELSE <<candidate_payload(Head(items))>> \o PayloadsOf(Tail(items))

\* candidate_payloads that leaves out the candidates of score 0.
candidate_payloads_scored_only(scored_candidates) ==
    PayloadsOf(SelectSeq(scored_candidates, LAMBDA item : item.score > 0))

\* candidate_payloads of run_segmentation.
candidate_payloads(scored_candidates) == PayloadsOf(scored_candidates)

RunRaises == [kind |-> "raise"]

\* The second pass of run_segmentation: crop around the selected box, select
\* among what the ROI provider call returned, border touch allowed.
roi_select(box_2d, width, height, focus_mode, roi_candidates) ==
    LET selected_box_px == _box_to_px(box_2d, width, height)
        roi_bounds == _crop_roi(selected_box_px, width, height, ROI_MARGIN)
    IN  _select_candidate(roi_candidates, roi_bounds[3] - roi_bounds[1],
                          roi_bounds[4] - roi_bounds[2], focus_mode, TRUE, <<>>)

\* The end of run_segmentation, given both selections: decode the mask that
\* is left and build the result.
result_of(first, roi) ==
    LET refined_mask == roi.kind = "return"
        refined_box == refined_mask /\ ~BoxIsMalformed(roi.selected.box_2d)
        roi_mask == IF refined_mask THEN roi.selected.mask ELSE first.selected.mask
    IN  IF roi_mask = <<>>
        THEN RunRaises
        ELSE [kind |-> "return",
              label |-> IF refined_mask THEN roi.selected.label ELSE first.selected.label,
              refined_mask |-> refined_mask,
              refined_box |-> refined_box,
              candidates |-> candidate_payloads(first.scored),
              selected_candidate |-> first.index]

\* run_segmentation after the first selection.
result_after(first, width, height, focus_mode, roi_candidates) ==
    IF first.kind = "raise" \/ BoxIsMalformed(first.selected.box_2d)
    THEN RunRaises
    ELSE CHOOSE r \in {result_of(first, roi) :
                          roi \in {roi_select(first.selected.box_2d, width, height,
                                              focus_mode, roi_candidates)}} : TRUE

\* run_segmentation from the return of _generate_with_fallback to its end,
\* given the first-pass candidates and what the ROI provider call returned
\* (<<>>: it raised).  The result keeps whether the ROI pass replaced the
\* mask (refined_mask) and the box (refined_box).
result_payload(candidates, width, height, focus_mode, allow_border_touch, candidate_index, roi_candidates) ==
    CHOOSE r \in {result_after(first, width, height, focus_mode, roi_candidates) :
                     first \in {_select_candidate(candidates, width, height, focus_mode,
                                                    allow_border_touch, candidate_index)}} : TRUE

\* First-pass candidates: two labels, a box that is not four numbers, the
\* whole image, its middle; their masks decode.
ResultCands ==
    [label : {"a", "b"}, box_2d : SelectBoxes, confidence : {<<Q>>}, mask : {<<Q>>}, edge : {0}]

\* What the ROI provider call returns: one candidate, well-formed, with a
\* box that is not four numbers, or with a mask that does not decode.
RoiCands ==
    {[label |-> "roi", box_2d |-> <<0, 0, NORM, NORM>>, confidence |-> <<Q>>,
      mask |-> <<Q>>, edge |-> 0],
     [label |-> "roi", box_2d |-> <<0, 0, NORM>>, confidence |-> <<Q>>,
      mask |-> <<Q>>, edge |-> 0],
     [label |-> "roi", box_2d |-> <<0, 0, NORM, NORM>>, confidence |-> <<Q>>,
      mask |-> <<>>, edge |-> 0]}

ResultInit ==
    /\ NoRequest
    /\ args \in [candidates : ListsUpTo(ResultCands, MaxCands) \ {<<>>},
                 width : {NORM}, height : {NORM},
                 focus_mode : {"auto", "largest"},
                 allow_border_touch : BOOLEAN,
                 candidate_index : {<<>>} \cup {<<i>> : i \in (0 - 1)..MaxCands},
                 roi_candidates : {<<>>} \cup {<<c>> : c \in RoiCands}]
    /\ ret = NoRet

BuildResult ==
    /\ ret = NoRet
    /\ ret' = result_payload(args.candidates, args.width, args.height, args.focus_mode,
                             args.allow_border_touch, args.candidate_index,
                             args.roi_candidates)
    /\ UNCHANGED <<env, pc, genv, retryv, hist, runv, response, roiv, args, procv, taskv>>

ResultNext == BuildResult

SpecResult == ResultInit /\ [][ResultNext]_vars

\* C27: in every result that run_segmentation returns, candidates has one
\* entry per first-pass candidate, in the provider's order, each with label,
\* box_2d, confidence and score and without a mask; selected_candidate is an
\* index of that list, the one of the first-pass selection, also when the
\* ROI pass replaced the box and the mask.
C27_PayloadListsFirstPassCandidates ==
    ret.kind = "return" =>
        /\ Len(ret.candidates) = Len(args.candidates)
        /\ \A i \in 1..Len(args.candidates) :
             /\ DOMAIN ret.candidates[i] = {"label", "box_2d", "confidence", "score"}
             /\ ret.candidates[i].label = args.candidates[i].label
             /\ ret.candidates[i].box_2d = args.candidates[i].box_2d
        /\ ret.selected_candidate >= 0
        /\ ret.selected_candidate < Len(ret.candidates)
        /\ IF IndexGiven
           THEN ret.selected_candidate = args.candidate_index[1]
           ELSE LET best == ret.candidates[ret.selected_candidate + 1].score
                IN  /\ \A j \in 1..Len(ret.candidates) : ret.candidates[j].score <= best
                    /\ \A j \in 1..ret.selected_candidate : ret.candidates[j].score < best

\* The ROI pass replaced mask and box; the first-pass selection is the last
\* of three candidates, the first of which could not be scored.
C27_Witness ==
    /\ ret.kind = "return"
    /\ ret.refined_mask /\ ret.refined_box
    /\ ret.label = "roi"
    /\ Len(ret.candidates) = 3
    /\ ret.selected_candidate = 2
    /\ ~IndexGiven
    /\ ret.candidates[1].score = 0
    /\ ret.candidates[1].label # ret.candidates[2].label

----------------------------------------------------------------------------
(* decode_base64_bytes                                                      *)
(*                                                                         *)
(* A string is a sequence of characters; a character of the base64         *)
(* alphabet is its value 0..63, the others that matter have codes above.   *)

PAD == 64
COMMA == 65
COLON == 66
WHITESPACE == 67

MaxBytes == 4
MaxByte == 1

\* base64.b64encode: three bytes give four characters, a rest of one or two
\* bytes gives two or three characters and the padding.
RECURSIVE b64encode(_)
b64encode(b) ==
    IF Len(b) = 0 THEN <<>>
    ELSE IF Len(b) = 1
        THEN <<b[1] \div 4, (b[1] % 4) * 16, PAD, PAD>>
    ELSE IF Len(b) = 2
        THEN <<b[1] \div 4, (b[1] % 4) * 16 + b[2] \div 16, (b[2] % 16) * 4, PAD>>
    ELSE <<b[1] \div 4, (b[1] % 4) * 16 + b[2] \div 16, (b[2] % 16) * 4 + b[3] \div 64,
           b[3] % 64>> \o b64encode(SubSeq(b, 4, Len(b)))

Returns(b) == [kind |-> "return", bytes |-> b]
RaisesError == [kind |-> "raise", bytes |-> <<>>]

\* binascii.a2b_base64 without validation, from character i on: characters
\* outside the alphabet are skipped, the padding ends the data once a group
\* has two characters or more, an unfinished group at the end is an error.
RECURSIVE a2b_base64(_, _, _, _, _, _)
a2b_base64(s, i, quad_pos, leftchar, pads, out) ==
    IF i > Len(s)
    THEN IF quad_pos # 0 THEN RaisesError ELSE Returns(out)
    ELSE IF s[i] = PAD
        THEN IF quad_pos >= 2 /\ quad_pos + pads + 1 >= 4
             THEN Returns(out)
             ELSE a2b_base64(s, i + 1, quad_pos, leftchar, pads + 1, out)
    ELSE IF s[i] > PAD
        THEN a2b_base64(s, i + 1, quad_pos, leftchar, pads, out)
    ELSE IF quad_pos = 0
        THEN a2b_base64(s, i + 1, 1, s[i], 0, out)
    ELSE IF quad_pos = 1
        THEN a2b_base64(s, i + 1, 2, s[i] % 16, 0, Append(out, leftchar * 4 + s[i] \div 16))
    ELSE IF quad_pos = 2
        THEN a2b_base64(s, i + 1, 3, s[i] % 4, 0, Append(out, leftchar * 16 + s[i] \div 4))
    ELSE a2b_base64(s, i + 1, 0, 0, 0, Append(out, leftchar * 64 + s[i]))

\* str.strip()
RECURSIVE strip(_)
strip(s) ==
    IF Len(s) > 0 /\ s[1] = WHITESPACE THEN strip(Tail(s))
    ELSE IF Len(s) > 0 /\ s[Len(s)] = WHITESPACE THEN strip(SubSeq(s, 1, Len(s) - 1))
    ELSE s

\* "data:"
DataScheme == <<29, 26, 45, 26, COLON>>

startswith(s, prefix) == Len(s) >= Len(prefix) /\ SubSeq(s, 1, Len(prefix)) = prefix

\* s.split(',', 1)[-1]: what follows the first comma, or all of s without one.
AfterFirstComma(s) ==
    IF \E i \in 1..Len(s) : s[i] = COMMA
    THEN LET first == CHOOSE i \in 1..Len(s) :
                          s[i] = COMMA /\ \A j \in 1..(i - 1) : s[j] # COMMA
         IN  SubSeq(s, first + 1, Len(s))
    ELSE s

\* re.sub(r'\s+', '', s)
WithoutWhitespace(s) == SelectSeq(s, LAMBDA c : c # WHITESPACE)

\* '=' * n
RECURSIVE Padding(_)
Padding(n) == IF n = 0 THEN <<>> ELSE <<PAD>> \o Padding(n - 1)

\* decode_base64_bytes that does not restore the padding.
decode_base64_bytes_unpadded(data) ==
    LET stripped == strip(data)
        payload == IF startswith(stripped, DataScheme) THEN AfterFirstComma(stripped)
                   ELSE stripped
        cleaned == WithoutWhitespace(payload)
    IN  IF Len(cleaned) = 0 THEN RaisesError
        ELSE a2b_base64(cleaned, 1, 0, 0, 0, <<>>)

\* decode_base64_bytes of a string.
decode_base64_bytes(data) ==
    LET stripped == strip(data)
        payload == IF startswith(stripped, DataScheme) THEN AfterFirstComma(stripped)
                   ELSE stripped
        cleaned == WithoutWhitespace(payload)
        padding == Len(cleaned) % 4
    IN  IF Len(cleaned) = 0 THEN RaisesError
        ELSE a2b_base64(IF padding # 0 THEN cleaned \o Padding(4 - padding) ELSE cleaned,
                        1, 0, 0, 0, <<>>)

\* s.rstrip('=')
RECURSIVE WithoutPadding(_)
WithoutPadding(s) ==
    IF Len(s) > 0 /\ s[Len(s)] = PAD THEN WithoutPadding(SubSeq(s, 1, Len(s) - 1)) ELSE s

\* "data:" and a media type, up to the comma
DataUrlPrefix == DataScheme \o <<8, 63, 15>> \o <<COMMA>>

ByteValues == (0..MaxByte) \cup ((255 - MaxByte)..255)

Base64Init ==
    /\ NoRequest
    /\ args \in [bytes : ListsUpTo(ByteValues, MaxBytes), data_url : BOOLEAN,
                 padded : BOOLEAN, newline : BOOLEAN]
    /\ ret = NoRet

\* The text a caller sends for args.bytes.
Encoded ==
    (IF args.data_url THEN DataUrlPrefix ELSE <<>>)
        \o (IF args.padded THEN b64encode(args.bytes) ELSE WithoutPadding(b64encode(args.bytes)))
        \o (IF args.newline THEN <<WHITESPACE>> ELSE <<>>)

DecodeBase64 ==
    /\ ret = NoRet
    /\ ret' = decode_base64_bytes(Encoded)
    /\ UNCHANGED <<env, pc, genv, retryv, hist, runv, response, roiv, args, procv, taskv>>

Base64Next == DecodeBase64

SpecBase64 == Base64Init /\ [][Base64Next]_vars

\* C25 as stated: for every byte string b, decode_base64_bytes of the
\* standard base64 encoding of b returns b, with or without a 'data:...,'
\* prefix and with or without the trailing '=' padding.
C25_RoundTripOfEveryByteString ==
    Called => (ret.kind = "return" /\ ret.bytes = args.bytes)

\* C25, amended: the same for every byte string that is not empty.
C25_RoundTripOfNonEmptyBytes ==
    (Called /\ Len(args.bytes) > 0) => (ret.kind = "return" /\ ret.bytes = args.bytes)

\* Four bytes, sent as a data URL whose padding was removed.
C25_Witness ==
    /\ Called
    /\ Len(args.bytes) = 4
    /\ args.data_url /\ ~args.padded
    /\ args.bytes[1] = 255 /\ args.bytes[4] = 1
    /\ ret.kind = "return"
    /\ ret.bytes = args.bytes

----------------------------------------------------------------------------
(* The crop rectangle of apply_mask                                         *)
(*                                                                         *)
(* A raster is the set of its non-zero pixels <<row, column>>, rows and    *)
(* columns counted from 0.                                                 *)

MaxAlphaDim == 3
MaxPadding == 2

Pixels(width, height) == (0..(height - 1)) \X (0..(width - 1))

\* The least and the greatest of a non-empty set of integers.
Least(S) == CHOOSE x \in S : \A y \in S : x <= y
Greatest(S) == CHOOSE x \in S : \A y \in S : x >= y

\* Image.getbbox(): <<>> for None, else (left, upper, right, lower) of the
\* non-zero pixels, right and lower excluded.
getbbox(alpha) ==
    IF alpha = {} THEN <<>>
    ELSE <<Least({p[2] : p \in alpha}), Least({p[1] : p \in alpha}),
           Greatest({p[2] : p \in alpha}) + 1, Greatest({p[1] : p \in alpha}) + 1>>

\* box_px of apply_mask with a padding that is not kept from being negative.
box_px_signed_padding(alpha, width, height, padding) ==
    LET bbox == IF getbbox(alpha) = <<>> THEN <<0, 0, width, height>> ELSE getbbox(alpha)
    IN  <<Max(0, bbox[1] - padding), Max(0, bbox[2] - padding),
          Min(width, bbox[3] + padding), Min(height, bbox[4] + padding)>>

\* box_px of apply_mask: [left, top, right, bottom].
box_px(alpha, width, height, padding) ==
    LET bbox == IF getbbox(alpha) = <<>> THEN <<0, 0, width, height>> ELSE getbbox(alpha)
        pad == Max(0, padding)
    IN  <<Max(0, bbox[1] - pad), Max(0, bbox[2] - pad),
          Min(width, bbox[3] + pad), Min(height, bbox[4] + pad)>>

AlphaInit ==
    /\ NoRequest
    /\ \E width \in 1..MaxAlphaDim, height \in 1..MaxAlphaDim :
         args \in [alpha : SUBSET Pixels(width, height), width : {width}, height : {height},
                   padding : (0 - 1)..MaxPadding]
    /\ ret = NoRet

CropToAlpha ==
    /\ ret = NoRet
    /\ ret' = [kind |-> "return",
               box_px |-> box_px(args.alpha, args.width, args.height, args.padding)]
    /\ UNCHANGED <<env, pc, genv, retryv, hist, runv, response, roiv, args, procv, taskv>>

AlphaNext == CropToAlpha

SpecAlpha == AlphaInit /\ [][AlphaNext]_vars

\* The tight bounding box of the non-zero pixels, the whole image without any.
TightBox ==
    IF args.alpha = {} THEN <<0, 0, args.width, args.height>>
    ELSE <<Least({p[2] : p \in args.alpha}), Least({p[1] : p \in args.alpha}),
           Greatest({p[2] : p \in args.alpha}) + 1, Greatest({p[1] : p \in args.alpha}) + 1>>

\* v lowered by max(0, padding), not below 0; v raised by it, not above limit.
Lowered(v) ==
    IF args.padding <= 0 THEN v ELSE IF v - args.padding < 0 THEN 0 ELSE v - args.padding
RaisedBy(v, limit) ==
    IF args.padding <= 0 THEN v ELSE IF v + args.padding > limit THEN limit ELSE v + args.padding

\* C23: box_px of apply_mask is the tight bounding box of alpha (the whole
\* image when alpha is empty) widened by max(0, padding) pixels on each side
\* and clamped to the image; so 0 <= left < right <= width, 0 <= top < bottom
\* <= height, and every pixel of non-zero alpha is inside it.
C23_CropBoxHoldsAlpha ==
    ret.kind = "return" =>
        LET b == ret.box_px
        IN  /\ b = <<Lowered(TightBox[1]), Lowered(TightBox[2]),
                     RaisedBy(TightBox[3], args.width), RaisedBy(TightBox[4], args.height)>>
            /\ 0 <= b[1] /\ b[1] < b[3] /\ b[3] <= args.width
            /\ 0 <= b[2] /\ b[2] < b[4] /\ b[4] <= args.height
            /\ \A p \in args.alpha : b[1] <= p[2] /\ p[2] < b[3] /\ b[2] <= p[1] /\ p[1] < b[4]

\* One pixel of alpha in the middle of a 3 x 3 image, a negative padding.
C23_Witness ==
    /\ ret.kind = "return"
    /\ args.alpha = {<<1, 1>>}
    /\ args.width = 3 /\ args.height = 3
    /\ args.padding < 0
    /\ ret.box_px = <<1, 1, 2, 2>>

----------------------------------------------------------------------------
(* _cleanup_binary_mask                                                     *)
(*                                                                         *)
(* The binary mask is the set of its foreground pixels.  The 3 x 3         *)
(* elliptic structuring element is the pixel and its four neighbours.      *)
(* Outside of the raster cv2 reads background when it dilates and          *)
(* foreground when it erodes.                                              *)

RasterSide == 11
MaxHoleWidth == 4

\* cv2.getStructuringElement(cv2.MORPH_ELLIPSE, (3, 3)) placed on p.
Kernel(p) ==
    {p, <<p[1] - 1, p[2]>>, <<p[1] + 1, p[2]>>, <<p[1], p[2] - 1>>, <<p[1], p[2] + 1>>}

dilate(F, grid) == {p \in grid : Kernel(p) \cap F # {}}

erode(F, grid) == {p \in F : \A q \in Kernel(p) : q \in grid => q \in F}

\* cv2.morphologyEx(., cv2.MORPH_CLOSE, kernel) and (., cv2.MORPH_OPEN, kernel)
MORPH_CLOSE(F, grid) == erode(dilate(F, grid), grid)
MORPH_OPEN(F, grid) == dilate(erode(F, grid), grid)

\* The eight neighbours of p and p.
Around(p) == {<<p[1] + dr, p[2] + dc>> : dr \in {0 - 1, 0, 1}, dc \in {0 - 1, 0, 1}}

\* The pixels of S that are 8-connected in S to the pixels of seen.
RECURSIVE Flood(_, _, _)
Flood(frontier, seen, S) ==
    LET next == (UNION {Around(p) : p \in frontier} \cap S) \ seen
    IN  IF next = {} THEN seen ELSE Flood(next, seen \cup next, S)

\* cv2.connectedComponentsWithStats(., connectivity=8): the components of
\* the non-zero pixels.
RECURSIVE connectedComponents(_)
connectedComponents(S) ==
    IF S = {} THEN {}
    ELSE LET p == CHOOSE q \in S : TRUE
             component == Flood({p}, {p}, S)
         IN  {component} \cup connectedComponents(S \ component)

\* A mask cleanup that keeps every component.
KeepLargestOrAll(components) == {UNION components}

\* What "labels == 1 + argmax(area)" can be: a component of the largest
\* area (which of several is the first label is up to cv2), or the empty
\* mask when there is no component.
KeepLargest(components) ==
    IF components = {} THEN {{}}
    ELSE {c \in components : \A d \in components : Cardinality(d) <= Cardinality(c)}

\* touches_border of the bounding rectangle (x, y, w, h) of a component.
touches_border(R, width, height) ==
    LET x == Least({p[2] : p \in R})
        y == Least({p[1] : p \in R})
        w == Greatest({p[2] : p \in R}) + 1 - x
        h == Greatest({p[1] : p \in R}) + 1 - y
    IN  x = 0 \/ y = 0 \/ x + w >= width \/ y + h >= height

\* hole_thresh; hole_ratio in thousandths.
hole_thresh(width, height, hole_ratio) ==
    Max(1, (height * width * Max(1, Min(50, hole_ratio))) \div 1000)

\* The hole filling that does not look at the border.
fill_holes_anywhere(cleaned, width, height, thresh) ==
    cleaned \cup UNION {R \in connectedComponents(Pixels(width, height) \ cleaned) :
                          Cardinality(R) <= thresh}

\* The loop over the components of inv = 1 - cleaned.
fill_holes(cleaned, width, height, thresh) ==
    cleaned \cup UNION {R \in connectedComponents(Pixels(width, height) \ cleaned) :
                          ~touches_border(R, width, height) /\ Cardinality(R) <= thresh}

\* The masks under cleanup: a full raster with a hole of three rows, with or
\* without a band of three background columns that cuts it in two.
HoleAt(r, c, w) == (r..(r + 2)) \X (c..(c + w - 1))
Band == (0..(RasterSide - 1)) \X ((RasterSide - 5)..(RasterSide - 3))

CleanupInit ==
    /\ NoRequest
    /\ \E w \in 1..MaxHoleWidth, r \in 0..(RasterSide - 3), banded \in BOOLEAN :
         \E c \in 0..(RasterSide - w) :
           args \in [binary : {Pixels(RasterSide, RasterSide)
                                   \ (HoleAt(r, c, w) \cup IF banded THEN Band ELSE {})},
                     width : {RasterSide}, height : {RasterSide},
                     hole_ratio : {10, 50}]
    /\ ret = NoRet

\* _cleanup_binary_mask: close, open, keep the largest component, fill holes.
CleanupBinaryMask ==
    /\ ret = NoRet
    /\ LET grid == Pixels(args.width, args.height)
           opened == MORPH_OPEN(MORPH_CLOSE(args.binary, grid), grid)
           thresh == hole_thresh(args.width, args.height, args.hole_ratio)
       IN  \E largest \in KeepLargest(connectedComponents(opened)) :
             ret' = [kind |-> "return",
                     opened |-> opened,
                     largest |-> largest,
                     cleaned |-> fill_holes(largest, args.width, args.height, thresh)]
    /\ UNCHANGED <<env, pc, genv, retryv, hist, runv, response, roiv, args, procv, taskv>>

CleanupNext == CleanupBinaryMask

SpecCleanup == CleanupInit /\ [][CleanupNext]_vars

\* The background regions of the mask before the holes are filled.
BackgroundRegions == connectedComponents(Pixels(args.width, args.height) \ ret.largest)

OnBorder(p) ==
    p[1] = 0 \/ p[2] = 0 \/ p[1] = args.height - 1 \/ p[2] = args.width - 1

\* max(1, int(height * width * holeRatio))
HoleThreshold ==
    IF (args.height * args.width * args.hole_ratio) \div 1000 >= 1
    THEN (args.height * args.width * args.hole_ratio) \div 1000 ELSE 1

\* C21: after _cleanup_binary_mask every background region that does not
\* touch the raster border and whose area is below the hole threshold
\* max(1, int(height * width * holeRatio)) is foreground, and every
\* background region that touches the border is still background.
C21_InteriorHolesAreFilled ==
    ret.kind = "return" =>
        \A R \in BackgroundRegions :
            /\ ((\A p \in R : ~OnBorder(p)) /\ Cardinality(R) < HoleThreshold)
                   => R \subseteq ret.cleaned
            /\ (\E p \in R : OnBorder(p)) => R \cap ret.cleaned = {}

\* A hole inside the larger part was filled while the band stayed background.
C21_Witness ==
    /\ ret.kind = "return"
    /\ \E R \in BackgroundRegions :
         (\A p \in R : ~OnBorder(p)) /\ Cardinality(R) < HoleThreshold /\ R \subseteq ret.cleaned
    /\ \E R \in BackgroundRegions :
         (\E p \in R : OnBorder(p)) /\ R \cap ret.cleaned = {}

\* C22: the mask that _cleanup_binary_mask returns has at most one
\* 8-connected foreground component: of the components left by close and
\* open the one of largest area, and filling holes adds no second one.
C22_OneForegroundComponent ==
    ret.kind = "return" =>
        /\ Cardinality(connectedComponents(ret.cleaned)) <= 1
        /\ \A c \in connectedComponents(ret.opened) :
             /\ Cardinality(c) <= Cardinality(ret.largest)
             /\ c \cap ret.cleaned # {} => c = ret.largest
        /\ ret.largest \subseteq ret.cleaned

\* Close and open left two components, the smaller was dropped, and a hole
\* of the larger was filled.
C22_Witness ==
    /\ ret.kind = "return"
    /\ Cardinality(connectedComponents(ret.opened)) = 2
    /\ Cardinality(connectedComponents(ret.cleaned)) = 1
    /\ ret.cleaned # ret.largest

----------------------------------------------------------------------------
(* rmbg._get_processor                                                      *)
(*                                                                         *)
(* Several threads of one process ask for the local model.  A thread can   *)
(* be preempted between any two of the steps below; a session is named by  *)
(* the number of the new_session call that made it.                        *)

NumCallers == 2

Callers == 1..NumCallers

Devices == {"cuda", "mps", "cpu"}

NotCalling == [pc |-> "idle", session |-> 0, got |-> <<>>]

ProcessorInit ==
    /\ NoRun
    /\ NoJobs
    /\ args \in [device : Devices]
    /\ ret = NoRet
    /\ _processor = 0
    /\ _device = "None"
    /\ new_sessions = 0
    /\ callers = [t \in Callers |-> NotCalling]

ProcessorUnchanged == UNCHANGED <<env, pc, genv, retryv, hist, runv, response, roiv, args, ret, taskv>>

\* A pipeline run calls _get_processor.
CallGetProcessor(t) ==
    /\ callers[t].pc = "idle"
    /\ callers' = [callers EXCEPT ![t].pc = "line84"]
    /\ UNCHANGED <<_processor, _device, new_sessions>>
    /\ ProcessorUnchanged

\* if _processor is not None: return _processor, _device
CheckLoaded(t) ==
    /\ callers[t].pc = "line84"
    /\ callers' = [callers EXCEPT ![t] =
                       IF _processor # 0
                       THEN [@ EXCEPT !.pc = "returned", !.got = <<_processor, _device>>]
                       ELSE [@ EXCEPT !.pc = "line91"]]
    /\ UNCHANGED <<_processor, _device, new_sessions>>
    /\ ProcessorUnchanged

\* _device = detect_best_device(preferred)
DetectDevice(t) ==
    /\ callers[t].pc = "line91"
    /\ _device' = args.device
    /\ callers' = [callers EXCEPT ![t].pc = "line105"]
    /\ UNCHANGED <<_processor, new_sessions>>
    /\ ProcessorUnchanged

\* new_session("u2net", providers=providers) returns a session.
NewSession(t) ==
    /\ callers[t].pc = "line105"
    /\ new_sessions' = new_sessions + 1
    /\ callers' = [callers EXCEPT ![t].pc = "store", ![t].session = new_sessions + 1]
    /\ UNCHANGED <<_processor, _device>>
    /\ ProcessorUnchanged

\* new_session raises: _get_processor raises ModelLoadError.
NewSessionRaises(t) ==
    /\ callers[t].pc = "line105"
    /\ new_sessions' = new_sessions + 1
    /\ callers' = [callers EXCEPT ![t].pc = "raised"]
    /\ UNCHANGED <<_processor, _device>>
    /\ ProcessorUnchanged

\* _processor = <the session>
StoreProcessor(t) ==
    /\ callers[t].pc = "store"
    /\ _processor' = callers[t].session
    /\ callers' = [callers EXCEPT ![t].pc = "line108"]
    /\ UNCHANGED <<_device, new_sessions>>
    /\ ProcessorUnchanged

\* return _processor, _device
ReturnProcessor(t) ==
    /\ callers[t].pc = "line108"
    /\ callers' = [callers EXCEPT ![t].pc = "returned", ![t].got = <<_processor, _device>>]
    /\ UNCHANGED <<_processor, _device, new_sessions>>
    /\ ProcessorUnchanged

ProcessorNext ==
    \E t \in Callers :
        \/ CallGetProcessor(t)
        \/ CheckLoaded(t)
        \/ DetectDevice(t)
        \/ NewSession(t)
        \/ NewSessionRaises(t)
        \/ StoreProcessor(t)
        \/ ReturnProcessor(t)

SpecProcessor == ProcessorInit /\ [][ProcessorNext]_vars

\* C24: for any interleaving of concurrent _get_processor calls the model
\* session is created (new_session called) at most once per process and
\* every caller receives that same handle.
C24_SessionCreatedOnce ==
    /\ new_sessions <= 1
    /\ \A t \in DOMAIN callers, u \in DOMAIN callers :
         (callers[t].pc = "returned" /\ callers[u].pc = "returned")
             => callers[t].got[1] = callers[u].got[1]

----------------------------------------------------------------------------
(* run_segmentation_task and persist_result                                 *)
(*                                                                         *)
(* One task per job id, run by workers that interleave at the database     *)
(* statements.  A SegmentResult is named by its position in results, 0 is  *)
(* the null reference, and key stands for cache_key(upload.sha256, params).*)

NumJobs == 2
NumKeys == 2

JobIds == 1..NumJobs
Keys == 1..NumKeys

STATUS_QUEUED == "queued"
STATUS_RUNNING == "running"
STATUS_DONE == "done"
STATUS_FAILED == "failed"
STATUS_CANCELED == "canceled"

\* What the task holds before line 13 and when the job does not exist.
DoesNotExist == [status |-> "DoesNotExist", result |-> 0, error |-> "", key |-> 0]

NotStarted == [pc |-> "line13", job |-> DoesNotExist, existing |-> 0, exc |-> "", runs |-> 0]

TasksInit ==
    /\ NoRun
    /\ NoProcessor
    /\ args = NoArgs
    /\ ret = NoRet
    /\ \E present \in SUBSET JobIds :
         jobs \in [present -> [status : {STATUS_QUEUED, STATUS_CANCELED}, result : {0},
                               error : {""}, key : Keys]]
    /\ results = <<>>
    /\ tasks = [j \in JobIds |-> NotStarted]

TasksUnchanged == UNCHANGED <<env, pc, genv, retryv, hist, runv, response, roiv, args, ret, procv>>

\* A task that goes on whatever the status of the job is.
AfterGet_any_status(job) == "line20"

\* Where the task goes once it has the job: line 17-18.
AfterGet(job) == IF job.status = STATUS_CANCELED THEN "returned" ELSE "line20"

\* SegmentResult.objects.filter(cache_key=key).first(): 0 for None.
FirstWithKey(key) ==
    IF \E i \in 1..Len(results) : results[i].key = key
    THEN CHOOSE i \in 1..Len(results) :
             results[i].key = key /\ \A h \in 1..(i - 1) : results[h].key # key
    ELSE 0

\* job = SegmentationJob.objects.get(id=job_id); return when it does not
\* exist or is canceled.
GetJob(j) ==
    /\ tasks[j].pc = "line13"
    /\ tasks' = [tasks EXCEPT ![j] =
                     IF j \in DOMAIN jobs
                     THEN [@ EXCEPT !.job = jobs[j], !.pc = AfterGet(jobs[j])]
                     ELSE [@ EXCEPT !.pc = "returned"]]
    /\ UNCHANGED <<jobs, results>>
    /\ TasksUnchanged

\* job.status = STATUS_RUNNING; job.save(update_fields=['status', ...])
MarkRunning(j) ==
    /\ tasks[j].pc = "line20"
    /\ jobs' = [jobs EXCEPT ![j].status = STATUS_RUNNING]
    /\ tasks' = [tasks EXCEPT ![j].pc = "line26"]
    /\ UNCHANGED results
    /\ TasksUnchanged

\* existing = SegmentResult.objects.filter(cache_key=...).first()
FindExisting(j) ==
    /\ tasks[j].pc = "line26"
    /\ tasks' = [tasks EXCEPT ![j].existing = FirstWithKey(tasks[j].job.key),
                              ![j].pc = IF FirstWithKey(tasks[j].job.key) # 0
                                        THEN "line31" ELSE "line37"]
    /\ UNCHANGED <<jobs, results>>
    /\ TasksUnchanged

\* if existing: job.result = existing; job.status = STATUS_DONE; job.save(...)
UseExisting(j) ==
    /\ tasks[j].pc = "line31"
    /\ jobs' = [jobs EXCEPT ![j].result = tasks[j].existing, ![j].status = STATUS_DONE]
    /\ tasks' = [tasks EXCEPT ![j].pc = "returned"]
    /\ UNCHANGED results
    /\ TasksUnchanged

\* payload = run_segmentation(upload, params) returns.
RunPipeline(j) ==
    /\ tasks[j].pc = "line37"
    /\ tasks' = [tasks EXCEPT ![j].runs = @ + 1, ![j].pc = "line38"]
    /\ UNCHANGED <<jobs, results>>
    /\ TasksUnchanged

\* run_segmentation raises.
RunPipelineRaises(j) ==
    /\ tasks[j].pc = "line37"
    /\ tasks' = [tasks EXCEPT ![j].runs = @ + 1, ![j].exc = "run_segmentation",
                              ![j].pc = "line43"]
    /\ UNCHANGED <<jobs, results>>
    /\ TasksUnchanged

\* persist_result: SegmentResult.objects.create(cache_key=key, ...) raises
\* IntegrityError when a row has the key (unique=True), else the row is
\* stored and its files are saved.
PersistResult(j) ==
    /\ tasks[j].pc = "line38"
    /\ IF FirstWithKey(tasks[j].job.key) # 0
       THEN /\ tasks' = [tasks EXCEPT ![j].exc = "IntegrityError", ![j].pc = "line43"]
            /\ UNCHANGED results
       ELSE /\ results' = Append(results, [key |-> tasks[j].job.key])
            /\ tasks' = [tasks EXCEPT ![j].existing = Len(results) + 1, ![j].pc = "line39"]
    /\ UNCHANGED jobs
    /\ TasksUnchanged

\* job.result = result; job.status = STATUS_DONE; job.save(...)
SaveDone(j) ==
    /\ tasks[j].pc = "line39"
    /\ jobs' = [jobs EXCEPT ![j].result = tasks[j].existing, ![j].status = STATUS_DONE]
    /\ tasks' = [tasks EXCEPT ![j].pc = "returned"]
    /\ UNCHANGED results
    /\ TasksUnchanged

\* except Exception as exc: job.status = STATUS_FAILED; job.error = str(exc)
SaveFailed(j) ==
    /\ tasks[j].pc = "line43"
    /\ jobs' = [jobs EXCEPT ![j].status = STATUS_FAILED, ![j].error = tasks[j].exc]
    /\ tasks' = [tasks EXCEPT ![j].pc = "returned"]
    /\ UNCHANGED results
    /\ TasksUnchanged

TasksNext ==
    \E j \in JobIds :
        \/ GetJob(j)
        \/ MarkRunning(j)
        \/ FindExisting(j)
        \/ UseExisting(j)
        \/ RunPipeline(j)
        \/ RunPipelineRaises(j)
        \/ PersistResult(j)
        \/ SaveDone(j)
        \/ SaveFailed(j)

SpecTasks == TasksInit /\ [][TasksNext]_vars

\* The task of job j has ended, the job was there and not canceled, and
\* run_segmentation did not raise.
Processed(j) ==
    /\ tasks[j].pc = "returned"
    /\ tasks[j].job.status \in {STATUS_QUEUED, STATUS_RUNNING, STATUS_DONE, STATUS_FAILED}
    /\ tasks[j].exc # "run_segmentation"

StoredWithKey(key) == {i \in 1..Len(results) : results[i].key = key}

\* C29: when two jobs with the same cache key are processed concurrently, in
\* any interleaving, and the pipeline succeeds for both, at most one
\* SegmentResult is stored for the key and both jobs end done with a result
\* of that key; neither ends failed because the other stored first.
C29_SameKeyJobsBothEndDone ==
    \A j \in DOMAIN jobs, k \in DOMAIN jobs :
        (j # k /\ jobs[j].key = jobs[k].key /\ Processed(j) /\ Processed(k))
            => /\ Cardinality(StoredWithKey(jobs[j].key)) <= 1
               /\ jobs[j].status = STATUS_DONE
               /\ jobs[j].result \in StoredWithKey(jobs[j].key)

\* The task of job j read the job as canceled at line 13.
CanceledAtStart(j) == tasks[j].job.status = STATUS_CANCELED

\* C30: run_segmentation_task never runs the pipeline for a job that is
\* canceled when the task starts and leaves its status and result as they
\* were; for every other existing job the task ends with the job done or
\* failed, never running; and a job that is done has a result.
C30_CanceledJobsAreLeftAlone ==
    \A j \in DOMAIN jobs :
        /\ (jobs[j].status = STATUS_CANCELED \/ CanceledAtStart(j))
               => /\ tasks[j].runs = 0
                  /\ jobs[j].status = STATUS_CANCELED
                  /\ jobs[j].result = 0
                  /\ tasks[j].pc \in {"line13", "returned"}
        /\ (tasks[j].pc = "returned" /\ ~CanceledAtStart(j))
               => jobs[j].status \in {STATUS_DONE, STATUS_FAILED}
        /\ jobs[j].status = STATUS_DONE => jobs[j].result \in 1..Len(results)

\* One task returned at once on a canceled job and another ran the
\* pipeline and ended with its job done or failed.
C30_Witness ==
    \E j \in DOMAIN jobs, k \in DOMAIN jobs :
        /\ tasks[j].pc = "returned" /\ CanceledAtStart(j) /\ jobs[j].status = STATUS_CANCELED
        /\ tasks[k].pc = "returned" /\ jobs[k].status \in {STATUS_DONE, STATUS_FAILED}
        /\ tasks[k].runs = 1

====
